---------------------------- MODULE Spec2Model ----------------------------
(***************************************************************************)
(* AIWordConnectGame: the core game engine of the word "connect" puzzle.   *)
(*                                                                         *)
(*   PathFinder    client/src/managers/PathFinder.ts                       *)
(*   MatchManager  client/src/managers/MatchManager.ts                     *)
(*   BoardManager  client/src/managers/BoardManager.ts                     *)
(*   GameScene     client/src/scenes/GameScene.ts (selection and matching) *)
(*   serialization client/src/utils/serialization.ts                       *)
(*   DifficultyManager  client/src/managers/CardManager.ts (second part)   *)
(*   GameStatsManager   unnamed/part_003 (second part)                     *)
(*   content supply     server/src/routes/words.ts,                        *)
(*                      server/src/services/AIService.ts,                  *)
(*                      unnamed/part_007 (LocalWordBank)                   *)
(*                                                                         *)
(* Specifications:                                                         *)
(*   SpecPath   findPath / evaluateMatch applied to every small board      *)
(*   Spec       a game session: initBoard, clicks, match evaluation        *)
(*   SpecBoard  initBoard called with any card count                       *)
(*   SpecCodec  serializeGameState / deserializeGameState                  *)
(*   SpecDifficulty  a DifficultyManager, its inactivity timer and time    *)
(*   SpecStats  a GameStatsManager: recordMatch, reset and the timer       *)
(*   SpecSupply  requests to POST /api/words/generate                      *)
(*   SpecSearch  one findPath call in steps, with the queue and visited    *)
(*   SpecSnapshot  a BoardManager with the identity of its row arrays      *)
(*   SpecStatsRestore  SpecStats with restoreFromState and setElapsedTime  *)
(*   SpecInactivity  the inactivity timer under continued inactivity       *)
(***************************************************************************)
EXTENDS Integers, Sequences, FiniteSets, TLC

(***************************************************************************)
(* Bounds of the model.                                                    *)
(***************************************************************************)
\* boards have at most MaxCells cells (rows * cols <= MaxCells)
MaxCells == 6
\* SpecBoard: initBoard is called with rows * cols <= MaxBoardCells
MaxBoardCells == 4
\* SpecSnapshot: initBoard is called with rows * cols <= MaxSnapCells
MaxSnapCells == 2
\* Spec: a session plays a board of at most MaxPairs pairs
MaxPairs == 2
\* Spec: failed attempts are counted up to MaxWrong
MaxWrong == 2
\* Spec: the clock of a session goes up to MaxSessionTime
MaxSessionTime == 30000

\* serialization: cells of a serialized board, values altered in a received text
MaxGridCells == 2
MaxBad == 1

\* SpecSearch: findPath in steps on boards of at most MaxSearchCells cells
MaxSearchCells == 5

\* SpecDifficulty: outcomes recorded since a reset, timer ids, the clock's step and end
MaxOutcomes == 6
MaxTimers == 3
TickMs == 10000
MaxTime == 70000

\* SpecStats: records in matchHistory, the clock's step and end
MaxHistory == 3
StatsTickMs == 500
MaxStatsTime == 3000
\* SpecStatsRestore: counters and seconds of a saved game
MaxSaved == 1
MaxRestoreTime == 1000

\* SpecSupply: requested pairs, entries of an AI reply, entries of a theme
MaxCount == 2
MaxItems == 3
MaxBank == 2

VARIABLES
  op,              \* the operation performed last
  pfBoard,         \* PathFinder / MatchManager argument: BoardState
  pfStart,         \* argument: start position (pos1)
  pfEnd,           \* argument: end position (pos2)
  pfPath,          \* value returned by findPath (NoPath for null)
  pfSimplified,    \* value returned by simplifyPath(pfPath) (NoPath: not called)
  bfsPhase,        \* findPath in steps: "idle", "called", "searching" or "returned"
  bfsQueue,        \* findPath in steps: queue
  bfsVisited,      \* findPath in steps: keys of visited
  bfsEnqueued,     \* every search state pushed onto queue so far, in order
  mCard1,          \* MatchManager.evaluateMatch argument card1
  mCard2,          \* MatchManager.evaluateMatch argument card2
  mResult,         \* MatchResult returned by evaluateMatch
  grid,            \* BoardManager.grid
  rows,            \* BoardManager.rows
  cols,            \* BoardManager.cols
  remainingCards,  \* BoardManager.remainingCards
  threw,           \* the last operation ended by throwing
  lastInit,        \* outcome of the latest initBoard: "none", "ok" or "threw"
  argCount,        \* cards.length of the latest initBoard call
  heap,            \* SpecSnapshot: content of the row arrays, by identity
  bm,              \* SpecSnapshot: BoardManager [grid, rows, cols, remainingCards]
  snap,            \* SpecSnapshot: the BoardState a caller holds (NoBoardState: none)
  bmThrew,         \* SpecSnapshot: the latest call threw
  scene,           \* GameScene: "loading", "playing" or "complete"
  selectedCard,    \* GameScene.selectedCard (position of the selected sprite)
  isProcessing,    \* GameScene.isProcessing
  correctCount,    \* GameScene.correctCount
  wrongCount,      \* GameScene.wrongCount
  remainingPairs,  \* GameScene.remainingPairs
  completions,     \* number of times GameScene.onGameComplete has run
  gsIn,            \* the GameState handed to serializeGameState
  jsonText,        \* the JSON text produced by serialize / handed to deserialize
  gsOut,           \* outcome of deserializeGameState: the GameState or the error
  now,             \* Date.now(), in milliseconds
  dm,              \* DifficultyManager: [state, inactivityTimer]
  timeouts,        \* the runtime's pending setTimeout calls: [id, due]
  dmReturned,      \* value returned by the latest recordMatchResult
  dmOutcomes,      \* the outcomes recorded since construction or reset()
  dmFirst,         \* the first value other than 'none' returned for dmOutcomes
  dmBatch,         \* value returned by calculateAdjustmentFromSequence(dmOutcomes)
  dmDetecting,     \* inactivity detection: "never" started, "started", or "stopped"
                   \* (by stopInactivityDetection() or reset())
  lastOutcomeAt,   \* time of the latest recordMatchResult (-1: none)
  stats,           \* GameStatsManager: [score, matchHistory, startTime, elapsedTime, isPaused]
  runMs,           \* milliseconds the timer has spent running since construction or reset()
  request,         \* body of the request being served (JUndef: none yet)
  response,        \* response sent for it (status 0: none yet)
  phase,           \* "idle", "awaitingAI" or "responded"
  attempt,         \* loop variable of AIService.generateContent
  aiReply,         \* latest reply of the AI service (kind "none": none)
  aiCalls,         \* per call of callAI settled for the request: whether the pass succeeded
  zhIdioms,        \* LocalWordBank.zhIdioms
  enWords          \* LocalWordBank.enWords

searchVars == <<bfsPhase, bfsQueue, bfsVisited, bfsEnqueued>>
pathVars == <<pfBoard, pfStart, pfEnd, pfPath, pfSimplified, mCard1, mCard2, mResult, searchVars>>
snapVars == <<heap, bm, snap, bmThrew>>
boardVars == <<grid, rows, cols, remainingCards, threw, lastInit, argCount, snapVars>>
sceneVars == <<scene, selectedCard, isProcessing, correctCount, wrongCount, remainingPairs,
               completions>>

codecVars == <<gsIn, jsonText, gsOut>>

diffVars == <<dm, timeouts, dmReturned, dmOutcomes, dmFirst, dmBatch, dmDetecting, lastOutcomeAt>>

\* the managers and services outside board, scene and serialization
supplyVars == <<request, response, phase, attempt, aiReply, aiCalls, zhIdioms, enWords>>
statsVars == <<stats, runMs>>
serviceVars == <<now, diffVars, statsVars, supplyVars>>

vars == <<op, pathVars, boardVars, sceneVars, codecVars, serviceVars>>

(***************************************************************************)
(* shared types (unnamed/part_009)                                         *)
(***************************************************************************)
CardType == {"word", "meaning"}

\* the value null in a grid cell (WordCard | null)
NoCard == [id |-> 0, pairId |-> 0, type |-> "null"]

\* a WordCard, reduced to the fields the engine reads
WordCard(p, t) == [id |-> 2 * p - (IF t = "word" THEN 1 ELSE 0), pairId |-> p, type |-> t]

Position(r, c) == [row |-> r, col |-> c]

\* the value null returned for "no path" (Path | null)
NoPath == [points |-> <<>>, turns |-> 0, null |-> TRUE]

Path(points, turns) == [points |-> points, turns |-> turns, null |-> FALSE]

(***************************************************************************)
(* PathFinder                                                              *)
(***************************************************************************)
DIRECTIONS ==
  (0 :> [row |-> -1, col |-> 0]) @@ (1 :> [row |-> 1, col |-> 0]) @@
  (2 :> [row |-> 0, col |-> -1]) @@ (3 :> [row |-> 0, col |-> 1])

\* mutant: the extended border ring is not passable
isPassableNoRing(row, col, board, end) ==
  IF row = end.row /\ col = end.col THEN TRUE
  ELSE IF row < 0 \/ row >= board.rows \/ col < 0 \/ col >= board.cols THEN FALSE
  ELSE board.grid[row][col] = NoCard

\* mutant: the ring is passable above and below the board only
isPassableNoSideRing(row, col, board, end) ==
  IF row = end.row /\ col = end.col THEN TRUE
  ELSE IF row < -1 \/ row > board.rows \/ col < 0 \/ col >= board.cols THEN FALSE
  ELSE IF row < 0 \/ row >= board.rows THEN TRUE
  ELSE board.grid[row][col] = NoCard

\* mutant: occupied cells of the board are passable too
isPassableThroughCards(row, col, board, end) ==
  IF row = end.row /\ col = end.col THEN TRUE
  ELSE IF row < -1 \/ row > board.rows \/ col < -1 \/ col > board.cols THEN FALSE
  ELSE TRUE

isPassable(row, col, board, end) ==
  IF row = end.row /\ col = end.col THEN TRUE
  ELSE IF row < -1 \/ row > board.rows \/ col < -1 \/ col > board.cols THEN FALSE
  ELSE IF row < 0 \/ row >= board.rows \/ col < 0 \/ col >= board.cols THEN TRUE
  ELSE board.grid[row][col] = NoCard

getVisitedKey(row, col, dir, turns) == <<row, col, dir, turns>>

\* mutant: no search state counts as visited
visitedHasNever(visited, key) == FALSE

\* visited.has(key)
visitedHas(visited, key) == key \in visited

\* mutant: every step counts as a turn
newTurnsOfEveryStep(d, direction, turns) == turns + 1

\* const newTurns = d === direction ? turns : turns + 1
newTurnsOf(d, direction, turns) == IF d = direction THEN turns ELSE turns + 1

\* mutant: the turn limit is off by one
turnsExceededOffByOne(newTurns) == newTurns > 3

\* if (newTurns > 2) continue
turnsExceeded(newTurns) == newTurns > 2

BFSNode(pos, d, turns, path) ==
  [position |-> pos, direction |-> d, turns |-> turns, path |-> path]

\* the initialisation loop of findPath (for d = 0..3 from the start cell)
RECURSIVE findPathInit(_, _, _, _, _, _)
findPathInit(d, start, end, board, queue, visited) ==
  IF d = 4 THEN [found |-> FALSE, path |-> NoPath, queue |-> queue, visited |-> visited]
  ELSE
    LET newRow == start.row + DIRECTIONS[d].row
        newCol == start.col + DIRECTIONS[d].col
    IN  IF newRow = end.row /\ newCol = end.col
        THEN [found |-> TRUE, path |-> Path(<<start, end>>, 0),
              queue |-> queue, visited |-> visited]
        ELSE IF isPassable(newRow, newCol, board, end)
        THEN findPathInit(d + 1, start, end, board,
               Append(queue, BFSNode(Position(newRow, newCol), d, 0,
                                     <<start, Position(newRow, newCol)>>)),
               visited \cup {getVisitedKey(newRow, newCol, d, 0)})
        ELSE findPathInit(d + 1, start, end, board, queue, visited)

\* the inner loop of the search (for d = 0..3 from the dequeued node)
RECURSIVE findPathExpand(_, _, _, _, _, _)
findPathExpand(d, current, end, board, queue, visited) ==
  IF d = 4 THEN [found |-> FALSE, path |-> NoPath, queue |-> queue, visited |-> visited]
  ELSE
    LET newRow == current.position.row + DIRECTIONS[d].row
        newCol == current.position.col + DIRECTIONS[d].col
        newTurns == newTurnsOf(d, current.direction, current.turns)
    IN  IF turnsExceeded(newTurns)
        THEN findPathExpand(d + 1, current, end, board, queue, visited)
        ELSE IF newRow = end.row /\ newCol = end.col
        THEN [found |-> TRUE, path |-> Path(Append(current.path, end), newTurns),
              queue |-> queue, visited |-> visited]
        ELSE IF isPassable(newRow, newCol, board, end)
                /\ ~visitedHas(visited, getVisitedKey(newRow, newCol, d, newTurns))
        THEN findPathExpand(d + 1, current, end, board,
               Append(queue, BFSNode(Position(newRow, newCol), d, newTurns,
                                     Append(current.path, Position(newRow, newCol)))),
               visited \cup {getVisitedKey(newRow, newCol, d, newTurns)})
        ELSE findPathExpand(d + 1, current, end, board, queue, visited)

\* while (queue.length > 0) { const current = queue.shift()! ... }
RECURSIVE findPathSearch(_, _, _, _)
findPathSearch(end, board, queue, visited) ==
  IF Len(queue) = 0 THEN NoPath
  ELSE
    LET r == findPathExpand(0, Head(queue), end, board, Tail(queue), visited)
    IN  IF r.found THEN r.path ELSE findPathSearch(end, board, r.queue, r.visited)

findPath(start, end, board) ==
  IF start.row = end.row /\ start.col = end.col THEN NoPath
  ELSE
    LET i == findPathInit(0, start, end, board, <<>>, {})
    IN  IF i.found THEN i.path ELSE findPathSearch(end, board, i.queue, i.visited)

\* getDirection(from, to)
getDirection(from, to) == IF from.row = to.row THEN "horizontal" ELSE "vertical"

\* the loop of calculateTurns on points[i] (0-based), turns counted so far
RECURSIVE calculateTurnsFrom(_, _, _)
calculateTurnsFrom(points, i, turns) ==
  IF ~(i < Len(points) - 1) THEN turns
  ELSE LET prev == points[i]
           curr == points[i + 1]
           next == points[i + 2]
       IN  IF getDirection(prev, curr) # getDirection(curr, next)
           THEN calculateTurnsFrom(points, i + 1, turns + 1)
           ELSE calculateTurnsFrom(points, i + 1, turns)

calculateTurns(points) ==
  IF Len(points) < 3 THEN 0 ELSE calculateTurnsFrom(points, 1, 0)

\* the loop of simplifyPath on points[i] (0-based)
RECURSIVE simplifyFrom(_, _, _)
simplifyFrom(points, i, simplified) ==
  IF ~(i < Len(points) - 1) THEN simplified
  ELSE LET prev == points[i]
           curr == points[i + 1]
           next == points[i + 2]
       IN  IF getDirection(prev, curr) # getDirection(curr, next)
           THEN simplifyFrom(points, i + 1, Append(simplified, curr))
           ELSE simplifyFrom(points, i + 1, simplified)

\* mutant: no point is removed
simplifyPathKeepsAll(path) == path

simplifyPath(path) ==
  IF Len(path.points) <= 2 THEN path
  ELSE Path(Append(simplifyFrom(path.points, 1, <<path.points[1]>>),
                   path.points[Len(path.points)]),
            path.turns)

(***************************************************************************)
(* MatchManager                                                            *)
(***************************************************************************)
\* mutant: the word card has to come first
isContentMatchWordFirst(card1, card2) ==
  IF card1.pairId # card2.pairId THEN FALSE
  ELSE IF card1.type # "word" \/ card2.type # "meaning" THEN FALSE
  ELSE TRUE

\* mutant: the type comparison is dropped
isContentMatchPairIdOnly(card1, card2) == card1.pairId = card2.pairId

isContentMatch(card1, card2) ==
  IF card1.pairId # card2.pairId THEN FALSE
  ELSE IF card1.type = card2.type THEN FALSE
  ELSE TRUE

MatchResult(success, reason, path) ==
  [success |-> success, failureReason |-> reason, path |-> path]

\* the MatchResult for a path already computed by pathFinder.findPath
matchResultFor(path, card1, card2) ==
  IF path.null THEN MatchResult(FALSE, "invalid_path", NoPath)
  ELSE IF ~isContentMatch(card1, card2) THEN MatchResult(FALSE, "content_mismatch", path)
  ELSE MatchResult(TRUE, "none", path)

evaluateMatch(card1, card2, pos1, pos2, board) ==
  matchResultFor(findPath(pos1, pos2, board), card1, card2)

\* the MatchResult before any evaluation
NoResult == MatchResult(FALSE, "unset", NoPath)

(***************************************************************************)
(* BoardManager.  A board value b holds the fields of the object:          *)
(* [grid, rows, cols, remainingCards].  grid is a zero-based array of      *)
(* zero-based rows.                                                        *)
(***************************************************************************)
\* an array hole: what reading past the end of a row yields (undefined)
Undefined == [id |-> 0, pairId |-> 0, type |-> "undefined"]

\* constructor()
NewBoard == [grid |-> <<>>, rows |-> 0, cols |-> 0, remainingCards |-> 0]

\* [cards[i], cards[j]] = [cards[j], cards[i]] on a sequence (array index k is s[k + 1])
Swap(s, i, j) == [s EXCEPT ![i + 1] = s[j + 1], ![j + 1] = s[i + 1]]

\* Fisher-Yates: for (i = length - 1; i > 0; i--) swap(i, j), where
\* j = Math.floor(Math.random() * (i + 1)) is rnd[i], any value of 0..i
RECURSIVE shuffleFrom(_, _, _)
shuffleFrom(i, cards, rnd) ==
  IF i <= 0 THEN cards ELSE shuffleFrom(i - 1, Swap(cards, i, rnd[i]), rnd)

shuffleCards(cards, rnd) == shuffleFrom(Len(cards) - 1, cards, rnd)

\* the values Math.random can give the shuffle of n cards
RandomDraws(n) == {f \in [1..(n - 1) -> 0..(n - 1)] : \A i \in 1..(n - 1) : f[i] <= i}

\* mutant: the card count is not validated
initBoardUnchecked(b, r, c, cards, rnd) ==
  LET shuffled == shuffleCards(cards, rnd)
  IN  [threw |-> FALSE,
       b |-> [grid |-> [x \in 0..(r - 1) |->
                          [y \in 0..(c - 1) |->
                             IF x * c + y + 1 <= Len(shuffled)
                             THEN shuffled[x * c + y + 1] ELSE Undefined]],
              rows |-> r, cols |-> c, remainingCards |-> r * c]]

\* initBoard(rows, cols, cards): rows and cols are assigned before the count is checked
initBoard(b, r, c, cards, rnd) ==
  LET totalCells == r * c
  IN  IF Len(cards) # totalCells
      THEN [threw |-> TRUE, b |-> [b EXCEPT !.rows = r, !.cols = c]]
      ELSE LET shuffled == shuffleCards(cards, rnd)
           IN  [threw |-> FALSE,
                b |-> [grid |-> [x \in 0..(r - 1) |->
                                   [y \in 0..(c - 1) |-> shuffled[x * c + y + 1]]],
                       rows |-> r, cols |-> c, remainingCards |-> totalCells]]

isValidPosition(b, row, col) == row >= 0 /\ row < b.rows /\ col >= 0 /\ col < b.cols

\* this.grid[row][col], where the row exists
cellAt(b, row, col) ==
  IF col \in DOMAIN b.grid[row] THEN b.grid[row][col] ELSE Undefined

\* this.grid[row][col] = null: an assignment past the end of the row lengthens it
withNull(line, col) ==
  LET last == IF col \in DOMAIN line THEN Cardinality(DOMAIN line) - 1 ELSE col
  IN  [y \in 0..last |-> IF y = col THEN NoCard
                         ELSE IF y \in DOMAIN line THEN line[y] ELSE Undefined]

\* mutant: the counter is decremented also for an empty cell
removeCardAlwaysCounts(b, row, col) ==
  IF isValidPosition(b, row, col)
  THEN IF row \notin DOMAIN b.grid
       THEN [threw |-> TRUE, b |-> b]
       ELSE [threw |-> FALSE,
             b |-> [b EXCEPT !.grid[row] = withNull(b.grid[row], col),
                             !.remainingCards = b.remainingCards - 1]]
  ELSE [threw |-> FALSE, b |-> b]

\* removeCard(row, col); reading this.grid[row][col] of a missing row is a TypeError
removeCard(b, row, col) ==
  IF isValidPosition(b, row, col)
  THEN IF row \notin DOMAIN b.grid
       THEN [threw |-> TRUE, b |-> b]
       ELSE IF cellAt(b, row, col) # NoCard
       THEN [threw |-> FALSE,
             b |-> [b EXCEPT !.grid[row] = withNull(b.grid[row], col),
                             !.remainingCards = b.remainingCards - 1]]
       ELSE [threw |-> FALSE, b |-> b]
  ELSE [threw |-> FALSE, b |-> b]

\* mutant: only the first card of the pair is removed
removeCardPairFirstOnly(b, pos1, pos2) == removeCard(b, pos1.row, pos1.col)

removeCardPair(b, pos1, pos2) ==
  LET first == removeCard(b, pos1.row, pos1.col)
  IN  IF first.threw THEN first ELSE removeCard(first.b, pos2.row, pos2.col)

isGameComplete(b) == b.remainingCards = 0

getRemainingCardCount(b) == b.remainingCards

\* getBoardState(): a copy of the grid with the dimensions
getBoardState(b) == [grid |-> b.grid, rows |-> b.rows, cols |-> b.cols]

(***************************************************************************)
(* serialization.  JavaScript values are tagged records:                   *)
(*   undefined, null, boolean b, string s, number (k, h), object f (its    *)
(*   own properties), array a.  A number is finite with value h / 2 (so    *)
(*   that halves such as 2.5 exist), or Infinity, or NaN.  A JSON text is  *)
(*   either not parseable or the tree of values it denotes; a number       *)
(*   literal too large for a double (1e999) is the number kind "huge".     *)
(***************************************************************************)
JUndef == [t |-> "undefined"]
JNull == [t |-> "null"]
JBool(b) == [t |-> "boolean", b |-> b]
JStr(s) == [t |-> "string", s |-> s]
JNum(k, h) == [t |-> "number", k |-> k, h |-> h]
JInt(n) == JNum("finite", 2 * n)
JInfinity == JNum("inf", 0)
JNaN == JNum("nan", 0)
JObj(f) == [t |-> "object", f |-> f]
JArr(a) == [t |-> "array", a |-> a]

\* typeof v
TypeOf(v) == IF v.t \in {"object", "array", "null"} THEN "object" ELSE v.t

\* !v
Falsy(v) ==
  \/ v.t \in {"undefined", "null"}
  \/ v.t = "boolean" /\ ~v.b
  \/ v.t = "string" /\ v.s = ""
  \/ v.t = "number" /\ (v.k = "nan" \/ (v.k = "finite" /\ v.h = 0))

\* obj[key] of an object or array (an array has none of the keys read here)
Get(v, key) ==
  IF v.t = "object" /\ key \in DOMAIN v.f THEN v.f[key] ELSE JUndef

\* v < 0, v <= 0 and Number.isInteger(v) of a number
LessThanZero(v) == v.k = "finite" /\ v.h < 0
AtMostZero(v) == v.k = "finite" /\ v.h <= 0
IsInteger(v) == v.k = "finite" /\ v.h % 2 = 0

\* mutant: the lengths are not compared
LengthDiffersNever(a, n) == FALSE

\* a.length !== n for a number n
LengthDiffers(a, n) == ~(n.k = "finite" /\ n.h = 2 * Len(a))

\* a === b for the values compared by areGameStatesEqual (primitives and undefined)
StrictEquals(a, b) == a = b /\ ~(a.t = "number" /\ a.k = "nan")

\* JSON.stringify of a number: NaN and Infinity are written as null
StringifyNumber(v) == IF v.k = "finite" THEN v ELSE JNull

\* JSON.stringify(v): properties holding undefined are left out, array elements
\* holding undefined are written as null
RECURSIVE Stringify(_)
Stringify(v) ==
  CASE v.t = "number" -> StringifyNumber(v)
    [] v.t = "object" ->
         JObj([key \in {k \in DOMAIN v.f : v.f[k].t # "undefined"} |-> Stringify(v.f[key])])
    [] v.t = "array" ->
         JArr([i \in 1..Len(v.a) |->
                 IF v.a[i].t = "undefined" THEN JNull ELSE Stringify(v.a[i])])
    [] OTHER -> v

\* the value JSON.parse gives for a JSON tree: a huge literal becomes Infinity
RECURSIVE ParseTree(_)
ParseTree(v) ==
  CASE v.t = "number" -> IF v.k = "huge" THEN JInfinity ELSE v
    [] v.t = "object" -> JObj([key \in DOMAIN v.f |-> ParseTree(v.f[key])])
    [] v.t = "array" -> JArr([i \in 1..Len(v.a) |-> ParseTree(v.a[i])])
    [] OTHER -> v

\* a text that is not JSON
InvalidText == [json |-> FALSE, tree |-> JUndef]

JsonText(tree) == [json |-> TRUE, tree |-> tree]

\* no text
NoText == [json |-> FALSE, tree |-> JNull]

\* serializeGameState(state)
serializeGameState(state) == JsonText(Stringify(state))

\* throw new GameStateValidationError(message); a message that embeds a row or
\* column number is written with r, c, ${rows}, ${cols} in its place
Throw(message) ==
  [ok |-> FALSE, name |-> "GameStateValidationError", message |-> message, v |-> JUndef]

\* return v
Return(v) == [ok |-> TRUE, name |-> "", message |-> "", v |-> v]

\* no call made
NoOutcome == [ok |-> FALSE, name |-> "", message |-> "", v |-> JUndef]

isValidLanguage(v) == v = JStr("zh") \/ v = JStr("en")
isValidLevel(v) == v = JStr("easy") \/ v = JStr("medium") \/ v = JStr("hard")
isValidCardType(v) == v = JStr("word") \/ v = JStr("meaning")

validateGameConfig(data) ==
  IF Falsy(data) \/ TypeOf(data) # "object" THEN Throw("config must be an object")
  ELSE IF ~isValidLanguage(Get(data, "language"))
  THEN Throw("config.language must be \"zh\" or \"en\"")
  ELSE IF ~isValidLevel(Get(data, "level"))
  THEN Throw("config.level must be \"easy\", \"medium\", or \"hard\"")
  ELSE IF TypeOf(Get(data, "theme")) # "string" THEN Throw("config.theme must be a string")
  ELSE IF Falsy(Get(data, "boardSize")) \/ TypeOf(Get(data, "boardSize")) # "object"
  THEN Throw("config.boardSize must be an object")
  ELSE
    LET boardSize == Get(data, "boardSize")
        r == Get(boardSize, "rows")
        c == Get(boardSize, "cols")
    IN  IF TypeOf(r) # "number" \/ AtMostZero(r)
        THEN Throw("config.boardSize.rows must be a positive number")
        ELSE IF TypeOf(c) # "number" \/ AtMostZero(c)
        THEN Throw("config.boardSize.cols must be a positive number")
        ELSE Return(JObj([language |-> Get(data, "language"),
                          level |-> Get(data, "level"),
                          theme |-> Get(data, "theme"),
                          boardSize |-> JObj([rows |-> r, cols |-> c])]))

\* the card object built by validateWordCard; confuse is set only when present
RestoredCard(data) ==
  LET required == [id |-> Get(data, "id"), word |-> Get(data, "word"),
                   meaning |-> Get(data, "meaning"), hint |-> Get(data, "hint"),
                   type |-> Get(data, "type"), pairId |-> Get(data, "pairId")]
  IN  IF Get(data, "confuse") # JUndef
      THEN JObj(required @@ [confuse |-> Get(data, "confuse")])
      ELSE JObj(required)

validateWordCard(data) ==
  IF Falsy(data) \/ TypeOf(data) # "object"
  THEN Throw("board.grid[r][c] must be an object or null")
  ELSE IF TypeOf(Get(data, "id")) # "string" THEN Throw("WordCard at [r][c].id must be a string")
  ELSE IF TypeOf(Get(data, "word")) # "string" THEN Throw("WordCard at [r][c].word must be a string")
  ELSE IF TypeOf(Get(data, "meaning")) # "string"
  THEN Throw("WordCard at [r][c].meaning must be a string")
  ELSE IF TypeOf(Get(data, "hint")) # "string" THEN Throw("WordCard at [r][c].hint must be a string")
  ELSE IF ~isValidCardType(Get(data, "type"))
  THEN Throw("WordCard at [r][c].type must be \"word\" or \"meaning\"")
  ELSE IF TypeOf(Get(data, "pairId")) # "string"
  THEN Throw("WordCard at [r][c].pairId must be a string")
  ELSE IF Get(data, "confuse") # JUndef /\ TypeOf(Get(data, "confuse")) # "string"
  THEN Throw("WordCard at [r][c].confuse must be a string if present")
  ELSE Return(RestoredCard(data))

\* the loop over the cells of one row, from column c (1-based index c)
RECURSIVE validateCells(_, _, _)
validateCells(row, c, validatedRow) ==
  IF c > Len(row) THEN Return(JArr(validatedRow))
  ELSE IF row[c] = JNull THEN validateCells(row, c + 1, Append(validatedRow, JNull))
  ELSE LET card == validateWordCard(row[c])
       IN  IF card.ok THEN validateCells(row, c + 1, Append(validatedRow, card.v))
           ELSE card

\* the loop over the rows of the grid, from row r (1-based index r)
RECURSIVE validateRows(_, _, _, _)
validateRows(gridRows, colsValue, r, acc) ==
  IF r > Len(gridRows) THEN Return(JArr(acc))
  ELSE IF gridRows[r].t # "array" THEN Throw("board.grid[r] must be an array")
  ELSE IF LengthDiffers(gridRows[r].a, colsValue)
  THEN Throw("board.grid[r] must have ${cols} columns")
  ELSE LET line == validateCells(gridRows[r].a, 1, <<>>)
       IN  IF line.ok THEN validateRows(gridRows, colsValue, r + 1, Append(acc, line.v))
           ELSE line

validateBoardState(data) ==
  IF Falsy(data) \/ TypeOf(data) # "object" THEN Throw("board must be an object")
  ELSE
    LET r == Get(data, "rows")
        c == Get(data, "cols")
        g == Get(data, "grid")
    IN  IF TypeOf(r) # "number" \/ AtMostZero(r)
        THEN Throw("board.rows must be a positive number")
        ELSE IF TypeOf(c) # "number" \/ AtMostZero(c)
        THEN Throw("board.cols must be a positive number")
        ELSE IF g.t # "array" THEN Throw("board.grid must be an array")
        ELSE IF LengthDiffers(g.a, r) THEN Throw("board.grid must have ${rows} rows")
        ELSE LET cells == validateRows(g.a, c, 1, <<>>)
             IN  IF cells.ok
                 THEN Return(JObj([grid |-> cells.v, rows |-> r, cols |-> c]))
                 ELSE cells

\* mutant: the counters are not required to be integers
validateGameScoreAnyNumber(data) ==
  IF Falsy(data) \/ TypeOf(data) # "object" THEN Throw("score must be an object")
  ELSE IF TypeOf(Get(data, "correct")) # "number" \/ LessThanZero(Get(data, "correct"))
  THEN Throw("score.correct must be a non-negative integer")
  ELSE IF TypeOf(Get(data, "wrong")) # "number" \/ LessThanZero(Get(data, "wrong"))
  THEN Throw("score.wrong must be a non-negative integer")
  ELSE Return(JObj([correct |-> Get(data, "correct"), wrong |-> Get(data, "wrong")]))

validateGameScore(data) ==
  IF Falsy(data) \/ TypeOf(data) # "object" THEN Throw("score must be an object")
  ELSE IF \/ TypeOf(Get(data, "correct")) # "number"
          \/ LessThanZero(Get(data, "correct"))
          \/ ~IsInteger(Get(data, "correct"))
  THEN Throw("score.correct must be a non-negative integer")
  ELSE IF \/ TypeOf(Get(data, "wrong")) # "number"
          \/ LessThanZero(Get(data, "wrong"))
          \/ ~IsInteger(Get(data, "wrong"))
  THEN Throw("score.wrong must be a non-negative integer")
  ELSE Return(JObj([correct |-> Get(data, "correct"), wrong |-> Get(data, "wrong")]))

validateSelectedCard(data) ==
  IF data = JNull THEN Return(JNull)
  ELSE IF Falsy(data) \/ TypeOf(data) # "object"
  THEN Throw("selectedCard must be an object or null")
  ELSE IF \/ TypeOf(Get(data, "row")) # "number"
          \/ ~IsInteger(Get(data, "row"))
          \/ LessThanZero(Get(data, "row"))
  THEN Throw("selectedCard.row must be a non-negative integer")
  ELSE IF \/ TypeOf(Get(data, "col")) # "number"
          \/ ~IsInteger(Get(data, "col"))
          \/ LessThanZero(Get(data, "col"))
  THEN Throw("selectedCard.col must be a non-negative integer")
  ELSE Return(JObj([row |-> Get(data, "row"), col |-> Get(data, "col")]))

validateAndRestoreGameState(data) ==
  IF Falsy(data) \/ TypeOf(data) # "object" THEN Throw("Game state must be an object")
  ELSE
    LET config == validateGameConfig(Get(data, "config"))
        board == validateBoardState(Get(data, "board"))
        score == validateGameScore(Get(data, "score"))
        elapsedTime == Get(data, "elapsedTime")
        selected == validateSelectedCard(Get(data, "selectedCard"))
    IN  IF ~config.ok THEN config
        ELSE IF ~board.ok THEN board
        ELSE IF ~score.ok THEN score
        ELSE IF TypeOf(elapsedTime) # "number" \/ LessThanZero(elapsedTime)
        THEN Throw("elapsedTime must be a non-negative number")
        ELSE IF ~selected.ok THEN selected
        ELSE IF TypeOf(Get(data, "isComplete")) # "boolean"
        THEN Throw("isComplete must be a boolean")
        ELSE Return(JObj([config |-> config.v, board |-> board.v, score |-> score.v,
                          elapsedTime |-> elapsedTime, selectedCard |-> selected.v,
                          isComplete |-> Get(data, "isComplete")]))

\* deserializeGameState(json): JSON.parse, then validation
deserializeGameState(text) ==
  IF ~text.json THEN Throw("Invalid JSON format")
  ELSE validateAndRestoreGameState(ParseTree(text.tree))

areWordCardsEqual(card1, card2) ==
  /\ StrictEquals(Get(card1, "id"), Get(card2, "id"))
  /\ StrictEquals(Get(card1, "word"), Get(card2, "word"))
  /\ StrictEquals(Get(card1, "meaning"), Get(card2, "meaning"))
  /\ StrictEquals(Get(card1, "hint"), Get(card2, "hint"))
  /\ StrictEquals(Get(card1, "type"), Get(card2, "type"))
  /\ StrictEquals(Get(card1, "pairId"), Get(card2, "pairId"))
  /\ StrictEquals(Get(card1, "confuse"), Get(card2, "confuse"))

\* the grid comparison of areGameStatesEqual, over the rows and cols of state1
gridsEqual(board1, board2) ==
  \A r \in 1..(Get(board1, "rows").h \div 2), c \in 1..(Get(board1, "cols").h \div 2) :
    LET card1 == Get(board1, "grid").a[r].a[c]
        card2 == Get(board2, "grid").a[r].a[c]
    IN  \/ card1 = JNull /\ card2 = JNull
        \/ card1 # JNull /\ card2 # JNull /\ areWordCardsEqual(card1, card2)

areGameStatesEqual(state1, state2) ==
  LET config1 == Get(state1, "config")
      config2 == Get(state2, "config")
      sel1 == Get(state1, "selectedCard")
      sel2 == Get(state2, "selectedCard")
  IN  /\ StrictEquals(Get(config1, "language"), Get(config2, "language"))
      /\ StrictEquals(Get(config1, "level"), Get(config2, "level"))
      /\ StrictEquals(Get(config1, "theme"), Get(config2, "theme"))
      /\ StrictEquals(Get(Get(config1, "boardSize"), "rows"),
                      Get(Get(config2, "boardSize"), "rows"))
      /\ StrictEquals(Get(Get(config1, "boardSize"), "cols"),
                      Get(Get(config2, "boardSize"), "cols"))
      /\ StrictEquals(Get(Get(state1, "board"), "rows"), Get(Get(state2, "board"), "rows"))
      /\ StrictEquals(Get(Get(state1, "board"), "cols"), Get(Get(state2, "board"), "cols"))
      /\ gridsEqual(Get(state1, "board"), Get(state2, "board"))
      /\ StrictEquals(Get(Get(state1, "score"), "correct"),
                      Get(Get(state2, "score"), "correct"))
      /\ StrictEquals(Get(Get(state1, "score"), "wrong"), Get(Get(state2, "score"), "wrong"))
      /\ StrictEquals(Get(state1, "elapsedTime"), Get(state2, "elapsedTime"))
      /\ \/ sel1 = JNull /\ sel2 = JNull
         \/ /\ sel1 # JNull /\ sel2 # JNull
            /\ StrictEquals(Get(sel1, "row"), Get(sel2, "row"))
            /\ StrictEquals(Get(sel1, "col"), Get(sel2, "col"))
      /\ StrictEquals(Get(state1, "isComplete"), Get(state2, "isComplete"))

(***************************************************************************)
(* DifficultyManager.  A value w holds the object and the timeouts the     *)
(* runtime has pending for it: [dm |-> [state, inactivityTimer],           *)
(* timeouts |-> set of [id, due]].  t is Date.now() at the call.           *)
(***************************************************************************)
CONSECUTIVE_THRESHOLD == 3

INACTIVITY_TIMEOUT == 30000

\* this.inactivityTimer = null
NoTimer == 0

\* the timer ids the runtime hands out
TimerIds == 1..MaxTimers

\* constructor(callbacks) at time t
NewDifficultyManager(t) ==
  [state |-> [consecutiveCorrect |-> 0, consecutiveWrong |-> 0, lastActionTime |-> t],
   inactivityTimer |-> NoTimer]

\* clearTimeout(id): a timeout that has fired or was cleared is not pending, and
\* clearing it does nothing
clearTimeout(pending, id) == {x \in pending : x.id # id}

\* the id setTimeout returns: one no pending timeout has and the object does not hold
FreeTimerIds(w) == TimerIds \ ({x.id : x \in w.timeouts} \cup {w.dm.inactivityTimer})

NewTimerId(w) == CHOOSE id \in FreeTimerIds(w) : \A other \in FreeTimerIds(w) : id <= other

updateLastActionTime(w, t) == [w EXCEPT !.dm.state.lastActionTime = t]

\* mutant: the pending timeout is not cleared before a new one is set
resetInactivityTimerNoClear(w, t) ==
  LET id == NewTimerId(w)
  IN  [w EXCEPT !.timeouts = w.timeouts \cup {[id |-> id, due |-> t + INACTIVITY_TIMEOUT]},
                !.dm.inactivityTimer = id]

resetInactivityTimer(w, t) ==
  LET id == NewTimerId(w)
      cleared == IF w.dm.inactivityTimer # NoTimer
                 THEN clearTimeout(w.timeouts, w.dm.inactivityTimer)
                 ELSE w.timeouts
  IN  [w EXCEPT !.timeouts = cleared \cup {[id |-> id, due |-> t + INACTIVITY_TIMEOUT]},
                !.dm.inactivityTimer = id]

\* mutant: the counter is not reset when the threshold is reached
handleCorrectMatchNoReset(w) ==
  LET n == w.dm.state.consecutiveCorrect + 1
      counted == [w EXCEPT !.dm.state.consecutiveCorrect = n, !.dm.state.consecutiveWrong = 0]
  IN  IF n >= CONSECUTIVE_THRESHOLD
      THEN [w |-> counted, returned |-> "increase"]
      ELSE [w |-> counted, returned |-> "none"]

\* handleCorrectMatch(); onDifficultyIncrease is called exactly when 'increase' is returned
handleCorrectMatch(w) ==
  LET n == w.dm.state.consecutiveCorrect + 1
      counted == [w EXCEPT !.dm.state.consecutiveCorrect = n, !.dm.state.consecutiveWrong = 0]
  IN  IF n >= CONSECUTIVE_THRESHOLD
      THEN [w |-> [counted EXCEPT !.dm.state.consecutiveCorrect = 0], returned |-> "increase"]
      ELSE [w |-> counted, returned |-> "none"]

\* mutant: a wrong outcome leaves the count of correct outcomes alone
handleWrongMatchKeepsCorrect(w) ==
  LET n == w.dm.state.consecutiveWrong + 1
      counted == [w EXCEPT !.dm.state.consecutiveWrong = n]
  IN  IF n >= CONSECUTIVE_THRESHOLD
      THEN [w |-> [counted EXCEPT !.dm.state.consecutiveWrong = 0], returned |-> "decrease"]
      ELSE [w |-> counted, returned |-> "none"]

\* handleWrongMatch(); onDifficultyDecrease is called exactly when 'decrease' is returned
handleWrongMatch(w) ==
  LET n == w.dm.state.consecutiveWrong + 1
      counted == [w EXCEPT !.dm.state.consecutiveWrong = n, !.dm.state.consecutiveCorrect = 0]
  IN  IF n >= CONSECUTIVE_THRESHOLD
      THEN [w |-> [counted EXCEPT !.dm.state.consecutiveWrong = 0], returned |-> "decrease"]
      ELSE [w |-> counted, returned |-> "none"]

recordMatchResult(w, isCorrect, t) ==
  LET armed == resetInactivityTimer(updateLastActionTime(w, t), t)
  IN  IF isCorrect THEN handleCorrectMatch(armed) ELSE handleWrongMatch(armed)

\* mutant: the hint is given and the timer is not set again
handleInactivityOnce(w, t) == w

\* handleInactivity(): onInactivityHint is called, then the timer is set again
handleInactivity(w, t) == resetInactivityTimer(w, t)

startInactivityDetection(w, t) == resetInactivityTimer(updateLastActionTime(w, t), t)

\* mutant: the field is set to null and the timeout is left pending
stopInactivityDetectionNoClear(w) ==
  IF w.dm.inactivityTimer # NoTimer
  THEN [w EXCEPT !.dm.inactivityTimer = NoTimer]
  ELSE w

stopInactivityDetection(w) ==
  IF w.dm.inactivityTimer # NoTimer
  THEN [w EXCEPT !.timeouts = clearTimeout(w.timeouts, w.dm.inactivityTimer),
                 !.dm.inactivityTimer = NoTimer]
  ELSE w

\* reset() at time t
resetDifficulty(w, t) ==
  stopInactivityDetection(
    [w EXCEPT !.dm.state = [consecutiveCorrect |-> 0, consecutiveWrong |-> 0,
                            lastActionTime |-> t]])

\* the loop of calculateAdjustmentFromSequence from element i (1-based)
RECURSIVE calculateFrom(_, _, _, _)
calculateFrom(results, i, consecutiveCorrect, consecutiveWrong) ==
  IF i > Len(results) THEN "none"
  ELSE IF results[i]
  THEN IF consecutiveCorrect + 1 >= CONSECUTIVE_THRESHOLD THEN "increase"
       ELSE calculateFrom(results, i + 1, consecutiveCorrect + 1, 0)
  ELSE IF consecutiveWrong + 1 >= CONSECUTIVE_THRESHOLD THEN "decrease"
       ELSE calculateFrom(results, i + 1, 0, consecutiveWrong + 1)

\* mutant: outcomes are counted whether consecutive or not
calculateAdjustmentCountingAll(results) ==
  IF Cardinality({i \in DOMAIN results : results[i]}) >= CONSECUTIVE_THRESHOLD THEN "increase"
  ELSE IF Cardinality({i \in DOMAIN results : ~results[i]}) >= CONSECUTIVE_THRESHOLD
  THEN "decrease"
  ELSE "none"

calculateAdjustmentFromSequence(results) == calculateFrom(results, 1, 0, 0)

(***************************************************************************)
(* GameStatsManager.  A value st holds the fields of the object; t is      *)
(* Date.now() at the call.                                                 *)
(***************************************************************************)
\* constructor()
NewGameStatsManager ==
  [score |-> [correct |-> 0, wrong |-> 0], matchHistory |-> <<>>,
   startTime |-> 0, elapsedTime |-> 0, isPaused |-> TRUE]

\* getElapsedTime(): whole seconds
getElapsedTime(st, t) ==
  IF st.isPaused THEN st.elapsedTime ELSE (t - st.startTime) \div 1000

startTimer(st, t) ==
  IF st.isPaused
  THEN [st EXCEPT !.startTime = t - (st.elapsedTime * 1000), !.isPaused = FALSE]
  ELSE st

\* mutant: the elapsed time is not stored when pausing
pauseTimerNoStore(st, t) ==
  IF ~st.isPaused THEN [st EXCEPT !.isPaused = TRUE] ELSE st

pauseTimer(st, t) ==
  IF ~st.isPaused
  THEN [st EXCEPT !.elapsedTime = getElapsedTime(st, t), !.isPaused = TRUE]
  ELSE st

\* reset()
resetStats(st) == NewGameStatsManager

MatchRecord(word, meaning, isCorrect, timestamp) ==
  [word |-> word, meaning |-> meaning, isCorrect |-> isCorrect, timestamp |-> timestamp]

\* mutant: a wrong attempt is logged but not counted
recordMatchCorrectOnly(st, word, meaning, isCorrect, t) ==
  LET logged == [st EXCEPT !.matchHistory = Append(@, MatchRecord(word, meaning, isCorrect, t))]
  IN  IF isCorrect THEN [logged EXCEPT !.score.correct = @ + 1] ELSE logged

recordMatch(st, word, meaning, isCorrect, t) ==
  LET logged == [st EXCEPT !.matchHistory = Append(@, MatchRecord(word, meaning, isCorrect, t))]
  IN  IF isCorrect
      THEN [logged EXCEPT !.score.correct = @ + 1]
      ELSE [logged EXCEPT !.score.wrong = @ + 1]

\* the optional argument matchHistory of restoreFromState
NoHistory == [given |-> FALSE, records |-> <<>>]
GivenHistory(records) == [given |-> TRUE, records |-> records]

\* restoreFromState(score, elapsedTime, matchHistory?)
restoreStatsFromState(st, score, seconds, history) ==
  [st EXCEPT !.score = score,
             !.elapsedTime = seconds,
             !.matchHistory = IF history.given THEN history.records ELSE <<>>,
             !.isPaused = TRUE]

\* setElapsedTime(seconds)
setElapsedTime(st, seconds, t) ==
  IF ~st.isPaused
  THEN [st EXCEPT !.elapsedTime = seconds, !.startTime = t - (seconds * 1000)]
  ELSE [st EXCEPT !.elapsedTime = seconds]

\* the loop of calculateStatsFromHistory from record i (1-based)
RECURSIVE calculateStatsFrom(_, _, _, _)
calculateStatsFrom(history, i, correct, wrong) ==
  IF i > Len(history) THEN [correct |-> correct, wrong |-> wrong]
  ELSE IF history[i].isCorrect
  THEN calculateStatsFrom(history, i + 1, correct + 1, wrong)
  ELSE calculateStatsFrom(history, i + 1, correct, wrong + 1)

calculateStatsFromHistory(history) == calculateStatsFrom(history, 1, 0, 0)

validateStats(st) ==
  LET calculated == calculateStatsFromHistory(st.matchHistory)
  IN  calculated.correct = st.score.correct /\ calculated.wrong = st.score.wrong

(***************************************************************************)
(* BoardManager with its arrays as objects.  A heap h maps the identity of *)
(* a row array to its content; a grid is a zero-based array of row         *)
(* identities, so that two grids may or may not share a row array.  A      *)
(* manager m is [grid, rows, cols, remainingCards] and a BoardState is     *)
(* [grid, rows, cols], both with such a grid.                              *)
(***************************************************************************)
RowRefs(g) == {g[r] : r \in DOMAIN g}

\* the content of the grid g
Deref(h, g) == [r \in DOMAIN g |-> h[g[r]]]

\* the manager m as a board value
BoardOf(h, m) ==
  [grid |-> Deref(h, m.grid), rows |-> m.rows, cols |-> m.cols,
   remainingCards |-> m.remainingCards]

\* the k-th smallest identity not in used (k >= 1)
NthFree(used, k) ==
  CHOOSE i \in 0..(Cardinality(used) + k) :
    i \notin used /\ Cardinality({j \in 0..i : j \notin used}) = k

\* new row arrays with the content of the rows of content: [heap, grid]
AllocRows(h, content) ==
  LET g == [r \in DOMAIN content |-> NthFree(DOMAIN h, r + 1)]
  IN  [heap |-> [id \in DOMAIN h \cup RowRefs(g) |->
                   IF id \in DOMAIN h THEN h[id]
                   ELSE content[CHOOSE r \in DOMAIN g : g[r] = id]],
       grid |-> g]

\* the row arrays of g after assignments into them gave them the content newGrid
StoreRows(h, g, newGrid) ==
  [id \in DOMAIN h |->
     IF id \in RowRefs(g) THEN newGrid[CHOOSE r \in DOMAIN g : g[r] = id] ELSE h[id]]

\* the arrays still reachable from the manager m and the BoardState state,
\* under identities that do not depend on the order of their creation: the
\* rows of m first, then the other rows of state
Renumber(h, m, state) ==
  LET own == RowRefs(m.grid)
      live == own \cup RowRefs(state.grid)
      indexIn(g, id) == CHOOSE r \in DOMAIN g : g[r] = id
      newId(id) ==
        IF id \in own THEN indexIn(m.grid, id)
        ELSE Cardinality(own)
             + Cardinality({r \in DOMAIN state.grid :
                              state.grid[r] \notin own /\ r < indexIn(state.grid, id)})
  IN  [heap |-> [n \in {newId(id) : id \in live} |-> h[CHOOSE id \in live : newId(id) = n]],
       m |-> [m EXCEPT !.grid = [r \in DOMAIN m.grid |-> newId(m.grid[r])]],
       state |-> [state EXCEPT !.grid = [r \in DOMAIN state.grid |-> newId(state.grid[r])]]]

\* initBoard(rows, cols, cards): this.grid = [] and new rows, when the count matches
initBoardOn(h, m, r, c, cards, rnd) ==
  LET res == initBoard(BoardOf(h, m), r, c, cards, rnd)
      a == AllocRows(h, res.b.grid)
  IN  IF res.threw
      THEN [threw |-> TRUE, heap |-> h, m |-> [m EXCEPT !.rows = r, !.cols = c]]
      ELSE [threw |-> FALSE, heap |-> a.heap,
            m |-> [grid |-> a.grid, rows |-> r, cols |-> c,
                   remainingCards |-> res.b.remainingCards]]

\* removeCard(row, col): this.grid[row][col] = null assigns into the row array
removeCardOn(h, m, row, col) ==
  LET res == removeCard(BoardOf(h, m), row, col)
  IN  [threw |-> res.threw, heap |-> StoreRows(h, m.grid, res.b.grid),
       m |-> [m EXCEPT !.remainingCards = res.b.remainingCards]]

removeCardPairOn(h, m, pos1, pos2) ==
  LET res == removeCardPair(BoardOf(h, m), pos1, pos2)
  IN  [threw |-> res.threw, heap |-> StoreRows(h, m.grid, res.b.grid),
       m |-> [m EXCEPT !.remainingCards = res.b.remainingCards]]

\* getBoardState(): this.grid.map(row => [...row])
getBoardStateOn(h, m) ==
  LET a == AllocRows(h, Deref(h, m.grid))
  IN  [heap |-> a.heap, state |-> [grid |-> a.grid, rows |-> m.rows, cols |-> m.cols]]

\* the counting loop of restoreFromState: cells that are not null
countCards(content) ==
  Cardinality({rc \in UNION {{<<r, c>> : c \in DOMAIN content[r]} : r \in DOMAIN content} :
                 content[rc[1]][rc[2]] # NoCard})

\* restoreFromState(state): state.grid.map(row => [...row]) and the recount
restoreFromStateOn(h, m, state) ==
  LET a == AllocRows(h, Deref(h, state.grid))
  IN  [heap |-> a.heap,
       m |-> [grid |-> a.grid, rows |-> state.rows, cols |-> state.cols,
              remainingCards |-> countCards(Deref(h, state.grid))]]

\* state.grid[row][col] = null, done by the holder of a BoardState
clearStateCell(h, state, row, col) ==
  [h EXCEPT ![state.grid[row]] = withNull(h[state.grid[row]], col)]

NoBoardState == [grid |-> <<>>, rows |-> 0, cols |-> 0]
NewManager == [grid |-> <<>>, rows |-> 0, cols |-> 0, remainingCards |-> 0]

(***************************************************************************)
(* Content supply: POST /api/words/generate (routes/words.ts), AIService   *)
(* and LocalWordBank.  A reply of the AI service is what callAI and the    *)
(* extraction and JSON.parse at the head of parseResponse make of it: an   *)
(* error thrown by callAI, a text JSON.parse rejects, or the parsed value. *)
(* A word bank maps theme names to what the data file holds for the theme: *)
(* an array of length entries, or a value that is not iterable.            *)
(***************************************************************************)
VALID_LANGUAGES == {"zh", "en"}
VALID_LEVELS == {"easy", "medium", "hard"}

\* AIService.maxRetries
maxRetries == 1

\* s.trim() and s.toLowerCase() on the strings of the model
Trim(s) == IF s = " " THEN "" ELSE s
ToLowerCase(s) == IF s = "Learning" THEN "learning" ELSE s

\* v < 1 of a number
LessThanOne(v) == v.k = "finite" /\ v.h < 2

GenerateInvalid(error) == [valid |-> FALSE, error |-> error, data |-> JUndef]

validateGenerateRequest(body) ==
  LET language == Get(body, "language")
      level    == Get(body, "level")
      theme    == Get(body, "theme")
      count    == Get(body, "count")
  IN  IF Falsy(body) \/ TypeOf(body) # "object"
      THEN GenerateInvalid("Request body is required")
      ELSE IF Falsy(language) \/ ~(language.t = "string" /\ language.s \in VALID_LANGUAGES)
      THEN GenerateInvalid("Invalid language. Must be one of: zh, en")
      ELSE IF Falsy(level) \/ ~(level.t = "string" /\ level.s \in VALID_LEVELS)
      THEN GenerateInvalid("Invalid level. Must be one of: easy, medium, hard")
      ELSE IF Falsy(theme) \/ TypeOf(theme) # "string" \/ Trim(theme.s) = ""
      THEN GenerateInvalid("Theme is required and must be a non-empty string")
      ELSE IF TypeOf(count) # "number" \/ LessThanOne(count) \/ ~IsInteger(count)
      THEN GenerateInvalid("Count must be a positive integer")
      ELSE [valid |-> TRUE, error |-> "",
            data |-> [language |-> language.s, level |-> level.s,
                      theme |-> theme.s, count |-> count.h \div 2]]

\* a WordCard as the server builds it, without the texts copied from the entry
ServerWordCard(type, pairId) ==
  [id |-> [prefix |-> type, pairId |-> pairId], type |-> type, pairId |-> pairId]
PairId(prefix, index, t) == [prefix |-> prefix, index |-> index, time |-> t]

isValidWordResponse(item) ==
  IF Falsy(item) \/ TypeOf(item) # "object" THEN FALSE
  ELSE /\ Get(item, "word").t = "string" /\ Get(item, "word").s # ""
       /\ Get(item, "meaning").t = "string" /\ Get(item, "meaning").s # ""
       /\ Get(item, "hint").t = "string" /\ Get(item, "hint").s # ""

\* the loop of parseResponse from index i (0-based) of the parsed array
RECURSIVE parseFrom(_, _, _, _, _)
parseFrom(parsed, i, cards, expectedCount, t) ==
  IF ~(i < Len(parsed) /\ Len(cards) < expectedCount * 2) THEN cards
  ELSE IF ~isValidWordResponse(parsed[i + 1])
  THEN parseFrom(parsed, i + 1, cards, expectedCount, t)
  ELSE parseFrom(parsed, i + 1,
                 cards \o << ServerWordCard("word", PairId("ai_pair", i, t)),
                             ServerWordCard("meaning", PairId("ai_pair", i, t)) >>,
                 expectedCount, t)

\* parseResponse(response, expectedCount): [threw, cards]
parseResponse(reply, expectedCount, t) ==
  IF reply.kind = "unparsable" THEN [threw |-> TRUE, cards |-> <<>>]
  ELSE IF reply.parsed.t # "array" THEN [threw |-> TRUE, cards |-> <<>>]
  ELSE [threw |-> FALSE, cards |-> parseFrom(reply.parsed.a, 0, <<>>, expectedCount, t)]

\* one pass of the loop of generateContent: callAI and parseResponse did not
\* throw and words.length > 0
attemptSucceeds(reply, expectedCount, t) ==
  /\ reply.kind # "error"
  /\ ~parseResponse(reply, expectedCount, t).threw
  /\ Len(parseResponse(reply, expectedCount, t).cards) > 0

\* mutant: the loop of generateContent ends after its first pass
retryAllowedNever(attempted) == FALSE

\* the loop of generateContent goes on after a failed pass: attempt++ and
\* attempt <= this.maxRetries
retryAllowed(attempted) == attempted + 1 <= maxRetries

\* LocalWordBank.createWordCardPairs on n entries, from entry index (0-based)
RECURSIVE createWordCardPairsFrom(_, _, _)
createWordCardPairsFrom(n, index, t) ==
  IF index >= n THEN <<>>
  ELSE << ServerWordCard("word", PairId("pair", index, t)),
          ServerWordCard("meaning", PairId("pair", index, t)) >>
       \o createWordCardPairsFrom(n, index + 1, t)

createWordCardPairs(n, t) == createWordCardPairsFrom(n, 0, t)

Min(a, b) == IF a < b THEN a ELSE b

\* the while loop of getWords on the lengths of selectedWords and availableWords
RECURSIVE repeatWords(_, _, _)
repeatWords(selected, available, count) ==
  IF selected < count /\ available > 0
  THEN repeatWords(selected + Min(available, count - selected), available, count)
  ELSE selected

RECURSIVE SumLengths(_, _)
SumLengths(wordBank, themes) ==
  IF themes = {} THEN 0
  ELSE LET th == CHOOSE x \in themes : TRUE
       IN  wordBank[th].length + SumLengths(wordBank, themes \ {th})

\* getWords(language, level, theme, count) on the bank of the language: [threw, cards]
getWords(wordBank, theme, count, t) ==
  LET normalizedTheme == ToLowerCase(theme)
      found == normalizedTheme \in DOMAIN wordBank
      spreadThrows ==
        IF found THEN ~wordBank[normalizedTheme].isArray
        ELSE \E th \in DOMAIN wordBank : ~wordBank[th].isArray
      available ==
        IF found THEN wordBank[normalizedTheme].length
        ELSE SumLengths(wordBank, DOMAIN wordBank)
      selected == repeatWords(Min(count, available), available, count)
  IN  IF spreadThrows THEN [threw |-> TRUE, cards |-> <<>>]
      ELSE [threw |-> FALSE, cards |-> createWordCardPairs(Min(selected, count), t)]

\* responses of the route
NoResponse ==
  [status |-> 0, success |-> FALSE, data |-> <<>>, source |-> "", code |-> "", message |-> ""]
ErrorResponse(status, code, message) ==
  [status |-> status, success |-> FALSE, data |-> <<>>, source |-> "", code |-> code,
   message |-> message]
GenerateResponse(data, source) ==
  [status |-> 200, success |-> TRUE, data |-> data, source |-> source, code |-> "",
   message |-> ""]

\* the route after the AI service reported failure: the local word bank,
\* tried again in the catch block when it throws
localFallback(wordBank, theme, count, t) ==
  LET first == getWords(wordBank, theme, count, t)
      again == getWords(wordBank, theme, count, t)
  IN  IF ~first.threw THEN GenerateResponse(first.cards, "local")
      ELSE IF ~again.threw THEN GenerateResponse(again.cards, "local")
      ELSE ErrorResponse(500, "GENERATION_FAILED",
                         "Failed to generate words from both AI and local sources")

(***************************************************************************)
(* Variable groups at rest: a specification leaves the parts of the        *)
(* program it does not exercise in their constructed state.                *)
(***************************************************************************)
EmptyBoardState == [grid |-> <<>>, rows |-> 0, cols |-> 0]

NoPosition == [row |-> -1, col |-> -1]

SearchIdle ==
  /\ bfsPhase = "idle"
  /\ bfsQueue = <<>>
  /\ bfsVisited = {}
  /\ bfsEnqueued = <<>>

PathIdle ==
  /\ pfBoard = EmptyBoardState
  /\ pfStart = NoPosition
  /\ pfEnd = NoPosition
  /\ pfPath = NoPath
  /\ pfSimplified = NoPath
  /\ SearchIdle
  /\ mCard1 = NoCard
  /\ mCard2 = NoCard
  /\ mResult = NoResult

BoardIdle ==
  /\ grid = NewBoard.grid
  /\ rows = NewBoard.rows
  /\ cols = NewBoard.cols
  /\ remainingCards = NewBoard.remainingCards
  /\ threw = FALSE
  /\ lastInit = "none"
  /\ argCount = 0
  /\ heap = <<>>
  /\ bm = NewManager
  /\ snap = NoBoardState
  /\ bmThrew = FALSE

SceneIdle ==
  /\ scene = "loading"
  /\ selectedCard = NoPosition
  /\ isProcessing = FALSE
  /\ correctCount = 0
  /\ wrongCount = 0
  /\ remainingPairs = 0
  /\ completions = 0

CodecIdle ==
  /\ gsIn = JUndef
  /\ jsonText = NoText
  /\ gsOut = NoOutcome

DifficultyIdle ==
  /\ dm = NewDifficultyManager(0)
  /\ timeouts = {}
  /\ dmReturned = "none"
  /\ dmOutcomes = <<>>
  /\ dmFirst = "none"
  /\ dmBatch = "none"
  /\ dmDetecting = "never"
  /\ lastOutcomeAt = -1

StatsIdle == stats = NewGameStatsManager /\ runMs = 0

SupplyIdle ==
  /\ request = JUndef
  /\ response = NoResponse
  /\ phase = "idle"
  /\ attempt = 0
  /\ aiReply = [kind |-> "none", parsed |-> JUndef]
  /\ aiCalls = <<>>

ServicesIdle ==
  /\ now = 0
  /\ DifficultyIdle
  /\ StatsIdle
  /\ SupplyIdle
  /\ zhIdioms = <<>>
  /\ enWords = <<>>

\* the BoardManager object held in the variables
Board == [grid |-> grid, rows |-> rows, cols |-> cols, remainingCards |-> remainingCards]

SetBoard(b) ==
  /\ grid' = b.grid
  /\ rows' = b.rows
  /\ cols' = b.cols
  /\ remainingCards' = b.remainingCards

(***************************************************************************)
(* SpecPath: findPath and evaluateMatch on every board of at most MaxCells *)
(* cells, every pair of positions inside it and every two cards.           *)
(***************************************************************************)
BoardDims == {d \in (1..MaxCells) \X (1..MaxCells) : d[1] * d[2] <= MaxCells}

\* a card whose content does not matter (path finding reads only null / non-null)
AnyCard == WordCard(1, "word")

BoardStates ==
  UNION {[rows : {d[1]}, cols : {d[2]},
          grid : [0..(d[1] - 1) -> [0..(d[2] - 1) -> {NoCard, AnyCard}]]] : d \in BoardDims}

PositionsIn(board) ==
  {Position(r, c) : r \in 0..(board.rows - 1), c \in 0..(board.cols - 1)}

\* the cards handed to evaluateMatch: two pairs, both types
ArgCards == {WordCard(p, t) : p \in 1..2, t \in CardType}

InitPath ==
  /\ op = "init"
  /\ pfBoard \in BoardStates
  /\ pfStart \in PositionsIn(pfBoard)
  /\ pfEnd \in PositionsIn(pfBoard)
  /\ pfPath = NoPath
  /\ pfSimplified = NoPath
  /\ SearchIdle
  /\ mCard1 = NoCard
  /\ mCard2 = NoCard
  /\ mResult = NoResult
  /\ BoardIdle
  /\ SceneIdle
  /\ CodecIdle
  /\ ServicesIdle

\* pathFinder.findPath(start, end, board)
CallFindPath ==
  /\ op = "init"
  /\ op' = "findPath"
  /\ pfPath' = findPath(pfStart, pfEnd, pfBoard)
  /\ UNCHANGED <<pfBoard, pfStart, pfEnd, pfSimplified, mCard1, mCard2, mResult, boardVars, sceneVars, codecVars, serviceVars, searchVars>>

\* matchManager.evaluateMatch(card1, card2, pos1, pos2, board), on the arguments
\* findPath was called with
CallEvaluateMatch ==
  /\ op = "findPath"
  /\ \E path \in {findPath(pfStart, pfEnd, pfBoard)} :
       \E c1 \in ArgCards, c2 \in ArgCards :
         /\ mCard1' = c1
         /\ mCard2' = c2
         /\ mResult' = matchResultFor(path, c1, c2)
  /\ op' = "evaluateMatch"
  /\ UNCHANGED <<pfBoard, pfStart, pfEnd, pfPath, pfSimplified, boardVars, sceneVars, codecVars,
                 serviceVars, searchVars>>

\* pathFinder.simplifyPath(path), on the path findPath returned
CallSimplifyPath ==
  /\ op = "findPath"
  /\ ~pfPath.null
  /\ op' = "simplifyPath"
  /\ pfSimplified' = simplifyPath(pfPath)
  /\ UNCHANGED <<pfBoard, pfStart, pfEnd, pfPath, mCard1, mCard2, mResult, boardVars, sceneVars,
                 codecVars, serviceVars, searchVars>>

NextPath == CallFindPath \/ CallEvaluateMatch \/ CallSimplifyPath

SpecPath == InitPath /\ [][NextPath]_vars

(***************************************************************************)
(* SpecSearch: one call of findPath taken in steps, the initialisation     *)
(* loop first and then one pass of the while loop per step.  The loop runs *)
(* without interruption, hence the weak fairness of its steps.             *)
(***************************************************************************)
SearchBoards == {b \in BoardStates : b.rows * b.cols <= MaxSearchCells}

\* the search states of the nodes of q
KeysOf(q) ==
  [k \in 1..Len(q) |->
     getVisitedKey(q[k].position.row, q[k].position.col, q[k].direction, q[k].turns)]

InitSearch ==
  /\ op = "init"
  /\ pfBoard \in SearchBoards
  /\ pfStart \in PositionsIn(pfBoard)
  /\ pfEnd \in PositionsIn(pfBoard)
  /\ pfPath = NoPath
  /\ pfSimplified = NoPath
  /\ bfsPhase = "called"
  /\ bfsQueue = <<>>
  /\ bfsVisited = {}
  /\ bfsEnqueued = <<>>
  /\ mCard1 = NoCard
  /\ mCard2 = NoCard
  /\ mResult = NoResult
  /\ BoardIdle
  /\ SceneIdle
  /\ CodecIdle
  /\ ServicesIdle

\* findPath up to the while loop
SearchStart ==
  /\ bfsPhase = "called"
  /\ IF pfStart.row = pfEnd.row /\ pfStart.col = pfEnd.col
     THEN /\ pfPath' = NoPath
          /\ bfsPhase' = "returned"
          /\ UNCHANGED <<bfsQueue, bfsVisited, bfsEnqueued, snapVars>>
     ELSE \E i \in {findPathInit(0, pfStart, pfEnd, pfBoard, <<>>, {})} :
            /\ pfPath' = i.path
            /\ bfsPhase' = IF i.found THEN "returned" ELSE "searching"
            /\ bfsQueue' = i.queue
            /\ bfsVisited' = i.visited
            /\ bfsEnqueued' = KeysOf(i.queue)
  /\ op' = "start"
  /\ UNCHANGED <<pfBoard, pfStart, pfEnd, pfSimplified, mCard1, mCard2, mResult, boardVars,
                 sceneVars, codecVars, serviceVars>>

\* one pass of while (queue.length > 0)
SearchStep ==
  /\ bfsPhase = "searching"
  /\ Len(bfsQueue) > 0
  /\ \E r \in {findPathExpand(0, Head(bfsQueue), pfEnd, pfBoard, Tail(bfsQueue), bfsVisited)} :
       /\ pfPath' = r.path
       /\ bfsPhase' = IF r.found THEN "returned" ELSE "searching"
       /\ bfsQueue' = r.queue
       /\ bfsVisited' = r.visited
       /\ bfsEnqueued' = bfsEnqueued \o KeysOf(SubSeq(r.queue, Len(bfsQueue), Len(r.queue)))
  /\ op' = "step"
  /\ UNCHANGED <<pfBoard, pfStart, pfEnd, pfSimplified, mCard1, mCard2, mResult, boardVars,
                 sceneVars, codecVars, serviceVars>>

\* the queue is empty: return null
SearchEnds ==
  /\ bfsPhase = "searching"
  /\ Len(bfsQueue) = 0
  /\ pfPath' = NoPath
  /\ bfsPhase' = "returned"
  /\ op' = "end"
  /\ UNCHANGED <<pfBoard, pfStart, pfEnd, pfSimplified, bfsQueue, bfsVisited, bfsEnqueued,
                 mCard1, mCard2, mResult, boardVars, sceneVars, codecVars, serviceVars>>

NextSearch == SearchStart \/ SearchStep \/ SearchEnds

SpecSearch == InitSearch /\ [][NextSearch]_vars /\ WF_vars(NextSearch)

(***************************************************************************)
(* SpecBoard: a BoardManager driven through its public operations, with    *)
(* initBoard called for any dimensions and any number of cards.            *)
(***************************************************************************)
\* n cards: word and meaning of pair 1, of pair 2, ...
Deck(n) == [k \in 1..n |-> WordCard((k + 1) \div 2, IF k % 2 = 1 THEN "word" ELSE "meaning")]

InitBoardSpec ==
  /\ op = "new"
  /\ BoardIdle
  /\ PathIdle
  /\ SceneIdle
  /\ CodecIdle
  /\ ServicesIdle

\* the positions handed to removeCard: the board and the ring around it
ArgPositions == {Position(r, c) : r \in -1..rows, c \in -1..cols}

\* initBoard(r, c, cards) on the new BoardManager, for any dimensions and card count
CallInitBoard ==
  /\ lastInit = "none"
  /\ \E r \in 0..MaxBoardCells, c \in 0..MaxBoardCells, n \in 0..(MaxBoardCells + 1) :
       /\ r * c <= MaxBoardCells
       /\ \E rnd \in RandomDraws(n) :
            LET res == initBoard(Board, r, c, Deck(n), rnd)
            IN  /\ SetBoard(res.b)
                /\ threw' = res.threw
                /\ lastInit' = IF res.threw THEN "threw" ELSE "ok"
                /\ argCount' = n
  /\ op' = "initBoard"
  /\ UNCHANGED <<pathVars, sceneVars, codecVars, serviceVars, snapVars>>

CallRemoveCard ==
  /\ lastInit # "none"
  /\ \E pos \in ArgPositions :
       LET res == removeCard(Board, pos.row, pos.col)
       IN  /\ SetBoard(res.b)
           /\ threw' = res.threw
  /\ op' = "removeCard"
  /\ UNCHANGED <<lastInit, argCount, pathVars, sceneVars, codecVars, serviceVars, snapVars>>

CallRemoveCardPair ==
  /\ lastInit # "none"
  /\ \E pos1 \in ArgPositions, pos2 \in ArgPositions :
       LET res == removeCardPair(Board, pos1, pos2)
       IN  /\ SetBoard(res.b)
           /\ threw' = res.threw
  /\ op' = "removeCardPair"
  /\ UNCHANGED <<lastInit, argCount, pathVars, sceneVars, codecVars, serviceVars, snapVars>>

NextBoard == CallInitBoard \/ CallRemoveCard \/ CallRemoveCardPair

SpecBoard == InitBoardSpec /\ [][NextBoard]_vars

(***************************************************************************)
(* SpecCodec: serializeGameState applied to every small state that         *)
(* validateAndRestoreGameState accepts, and deserializeGameState applied   *)
(* to its result or to a text received from outside: a text that is not    *)
(* JSON, or the JSON text of a saved state in which at most MaxBad values  *)
(* have been replaced or removed.                                          *)
(***************************************************************************)
CardObject(id, type, pairId) ==
  [id |-> JStr(id), word |-> JStr("cat"), meaning |-> JStr("mao"),
   hint |-> JStr("animal"), type |-> JStr(type), pairId |-> JStr(pairId)]

\* the contents a grid cell is given: empty, a card, a card with confuse
CellValues ==
  { JNull,
    JObj(CardObject("p1-word", "word", "p1")),
    JObj(CardObject("p1-meaning", "meaning", "p1") @@ [confuse |-> JStr("cap")]),
    JObj(CardObject("p2-word", "word", "p2") @@ [confuse |-> JUndef]) }

GridDims == {d \in (1..MaxGridCells) \X (1..MaxGridCells) : d[1] * d[2] <= MaxGridCells}

GridsOf(r, c) == {JArr([i \in 1..r |-> JArr(line[i])]) : line \in [1..r -> [1..c -> CellValues]]}

BoardObjects ==
  UNION {{JObj([grid |-> g, rows |-> JInt(d[1]), cols |-> JInt(d[2])]) : g \in GridsOf(d[1], d[2])}
         : d \in GridDims}

ConfigObjects ==
  {JObj([language |-> JStr(l), level |-> JStr(lv), theme |-> JStr(th),
         boardSize |-> JObj([rows |-> r, cols |-> JInt(2)])]) :
     l \in {"zh", "en"}, lv \in {"easy", "hard"}, th \in {"", "animals"},
     r \in {JInt(2), JNum("finite", 5), JInfinity}}

ScoreObjects == {JObj([correct |-> JInt(0), wrong |-> JInt(0)]),
                 JObj([correct |-> JInt(5), wrong |-> JInt(2)])}

ElapsedValues == {JInt(0), JInt(120), JNum("finite", 15), JInfinity, JNaN}

SelectedValues == {JNull, JObj([row |-> JInt(0), col |-> JInt(1)])}

GameStateObject(config, board, score, elapsedTime, selected, isComplete) ==
  JObj([config |-> config, board |-> board, score |-> score, elapsedTime |-> elapsedTime,
        selectedCard |-> selected, isComplete |-> JBool(isComplete)])

\* the GameState values given to serializeGameState
GameStates ==
  {g \in {GameStateObject(cf, b, sc, el, sel, done) :
            cf \in ConfigObjects, b \in BoardObjects, sc \in ScoreObjects,
            el \in ElapsedValues, sel \in SelectedValues, done \in BOOLEAN} :
     validateAndRestoreGameState(g).ok}

\* the saved states whose texts are altered
SavedTrees ==
  LET config == JObj([language |-> JStr("zh"), level |-> JStr("easy"), theme |-> JStr("animals"),
                      boardSize |-> JObj([rows |-> JInt(1), cols |-> JInt(2)])])
      card1 == JObj(CardObject("p1-word", "word", "p1") @@ [confuse |-> JStr("cap")])
      card2 == JObj(CardObject("p1-meaning", "meaning", "p1"))
      board == JObj([grid |-> JArr(<<JArr(<<card1, card2>>)>>), rows |-> JInt(1), cols |-> JInt(2)])
  IN  {GameStateObject(config, board, JObj([correct |-> JInt(5), wrong |-> JInt(2)]),
                       JInt(120), JObj([row |-> JInt(0), col |-> JInt(1)]), FALSE)}

\* the index of an array element named in a path
Index(key) == IF key = "0" THEN 1 ELSE 2

\* the tree v with the value at path replaced by x, or removed when x is undefined
RECURSIVE With(_, _, _)
With(v, path, x) ==
  IF path = <<>> THEN x
  ELSE IF v.t = "object"
  THEN LET key == Head(path)
           inner == With(Get(v, key), Tail(path), x)
       IN  IF inner = JUndef
           THEN JObj([k \in DOMAIN v.f \ {key} |-> v.f[k]])
           ELSE JObj([k \in DOMAIN v.f \cup {key} |-> IF k = key THEN inner ELSE v.f[k]])
  ELSE IF v.t = "array" /\ Index(Head(path)) \in DOMAIN v.a
  THEN LET inner == With(v.a[Index(Head(path))], Tail(path), x)
       IN  JArr([v.a EXCEPT ![Index(Head(path))] = IF inner = JUndef THEN JNull ELSE inner])
  ELSE v

FieldPaths ==
  LET cell == <<"board", "grid", "0", "0">>
  IN  { <<"config">>, <<"config", "language">>, <<"config", "level">>, <<"config", "theme">>,
        <<"config", "boardSize">>, <<"config", "boardSize", "rows">>,
        <<"config", "boardSize", "cols">>,
        <<"board">>, <<"board", "rows">>, <<"board", "cols">>, <<"board", "grid">>,
        <<"board", "grid", "0">>, cell,
        cell \o <<"id">>, cell \o <<"word">>, cell \o <<"meaning">>, cell \o <<"hint">>,
        cell \o <<"type">>, cell \o <<"pairId">>, cell \o <<"confuse">>,
        <<"score">>, <<"score", "correct">>, <<"score", "wrong">>,
        <<"elapsedTime">>, <<"selectedCard">>, <<"selectedCard", "row">>,
        <<"selectedCard", "col">>, <<"isComplete">> }

EmptyObject == JObj([k \in {} |-> JNull])

ReplacementValues ==
  { JUndef, JNull, JBool(TRUE), JStr(""), JStr("fr"), JInt(0), JInt(1), JInt(2), JInt(-1),
    JNum("finite", 3), JNum("huge", 0), JArr(<<>>), EmptyObject }

RECURSIVE AlteredTrees(_)
AlteredTrees(n) ==
  IF n = 0 THEN SavedTrees
  ELSE LET less == AlteredTrees(n - 1)
       IN  less \cup {With(v, path, x) : v \in less, path \in FieldPaths, x \in ReplacementValues}

\* the texts given to deserializeGameState from outside
ReceivedTexts ==
  {InvalidText}
    \cup {JsonText(x) : x \in ReplacementValues \ {JUndef}}
    \cup {JsonText(v) : v \in AlteredTrees(MaxBad)}

InitCodec ==
  /\ PathIdle
  /\ BoardIdle
  /\ SceneIdle
  /\ ServicesIdle
  /\ gsOut = NoOutcome
  /\ \/ /\ op = "state"
        /\ gsIn \in GameStates
        /\ jsonText = NoText
     \/ /\ op = "text"
        /\ gsIn = JUndef
        /\ jsonText \in ReceivedTexts

\* const json = serializeGameState(original)
CallSerialize ==
  /\ op = "state"
  /\ jsonText' = serializeGameState(gsIn)
  /\ op' = "serialize"
  /\ UNCHANGED <<gsIn, gsOut, pathVars, boardVars, sceneVars, serviceVars>>

\* const restored = deserializeGameState(json)
CallDeserialize ==
  /\ op \in {"serialize", "text"}
  /\ gsOut' = deserializeGameState(jsonText)
  /\ op' = IF op = "serialize" THEN "roundTrip" ELSE "deserialize"
  /\ UNCHANGED <<gsIn, jsonText, pathVars, boardVars, sceneVars, serviceVars>>

NextCodec == CallSerialize \/ CallDeserialize

SpecCodec == InitCodec /\ [][NextCodec]_vars

(***************************************************************************)
(* SpecDifficulty: a DifficultyManager constructed at time 0 and driven    *)
(* through recordMatchResult, startInactivityDetection,                    *)
(* stopInactivityDetection and reset while time passes in steps of TickMs; *)
(* a pending timeout may fire once it is due.  The outcomes recorded since *)
(* construction or the last reset() are also handed to                     *)
(* calculateAdjustmentFromSequence.                                        *)
(***************************************************************************)
World == [dm |-> dm, timeouts |-> timeouts]

SetWorld(w) ==
  /\ dm' = w.dm
  /\ timeouts' = w.timeouts

InitDifficulty ==
  /\ op = "new"
  /\ PathIdle
  /\ BoardIdle
  /\ SceneIdle
  /\ CodecIdle
  /\ ServicesIdle

\* time passes
Tick ==
  /\ now + TickMs <= MaxTime
  /\ now' = now + TickMs
  /\ op' = "tick"
  /\ UNCHANGED <<diffVars, pathVars, boardVars, sceneVars, codecVars, statsVars,
                 supplyVars>>

\* recordMatchResult(isCorrect)
CallRecordMatchResult ==
  /\ Len(dmOutcomes) < MaxOutcomes
  /\ FreeTimerIds(World) # {}
  /\ \E isCorrect \in BOOLEAN :
       LET res == recordMatchResult(World, isCorrect, now)
       IN  /\ SetWorld(res.w)
           /\ dmReturned' = res.returned
           /\ dmOutcomes' = Append(dmOutcomes, isCorrect)
           /\ dmFirst' = IF dmFirst = "none" THEN res.returned ELSE dmFirst
  /\ lastOutcomeAt' = now
  /\ op' = "recordMatchResult"
  /\ UNCHANGED <<now, dmBatch, dmDetecting, pathVars, boardVars, sceneVars, codecVars, statsVars,
                 supplyVars>>

\* startInactivityDetection()
CallStartInactivityDetection ==
  /\ FreeTimerIds(World) # {}
  /\ SetWorld(startInactivityDetection(World, now))
  /\ dmDetecting' = "started"
  /\ op' = "startInactivityDetection"
  /\ UNCHANGED <<now, dmReturned, dmOutcomes, dmFirst, dmBatch, lastOutcomeAt,
                 pathVars, boardVars, sceneVars, codecVars, statsVars,
                 supplyVars>>

\* stopInactivityDetection()
CallStopInactivityDetection ==
  /\ SetWorld(stopInactivityDetection(World))
  /\ dmDetecting' = "stopped"
  /\ op' = "stopInactivityDetection"
  /\ UNCHANGED <<now, dmReturned, dmOutcomes, dmFirst, dmBatch, lastOutcomeAt,
                 pathVars, boardVars, sceneVars, codecVars, statsVars,
                 supplyVars>>

\* reset()
CallResetDifficulty ==
  /\ SetWorld(resetDifficulty(World, now))
  /\ dmDetecting' = "stopped"
  /\ dmOutcomes' = <<>>
  /\ dmFirst' = "none"
  /\ op' = "reset"
  /\ UNCHANGED <<now, dmReturned, dmBatch, lastOutcomeAt,
                 pathVars, boardVars, sceneVars, codecVars, statsVars,
                 supplyVars>>

\* a pending timeout that is due fires: the runtime runs () => this.handleInactivity()
TimeoutFires ==
  /\ \E x \in timeouts :
       /\ x.due <= now
       /\ FreeTimerIds([World EXCEPT !.timeouts = timeouts \ {x}]) # {}
       /\ SetWorld(handleInactivity([World EXCEPT !.timeouts = timeouts \ {x}], now))
  /\ op' = "hint"
  /\ UNCHANGED <<now, dmReturned, dmOutcomes, dmFirst, dmBatch, dmDetecting, lastOutcomeAt,
                 pathVars, boardVars, sceneVars, codecVars, statsVars,
                 supplyVars>>

\* DifficultyManager.calculateAdjustmentFromSequence(results)
CallCalculateAdjustment ==
  /\ dmBatch' = calculateAdjustmentFromSequence(dmOutcomes)
  /\ op' = "calculate"
  /\ UNCHANGED <<now, dm, timeouts, dmReturned, dmOutcomes, dmFirst, dmDetecting, lastOutcomeAt,
                 pathVars, boardVars, sceneVars, codecVars, statsVars,
                 supplyVars>>

NextDifficulty ==
  \/ Tick
  \/ CallRecordMatchResult
  \/ CallStartInactivityDetection
  \/ CallStopInactivityDetection
  \/ CallResetDifficulty
  \/ TimeoutFires
  \/ CallCalculateAdjustment

SpecDifficulty == InitDifficulty /\ [][NextDifficulty]_vars

(***************************************************************************)
(* SpecInactivity: the inactivity timer of a DifficultyManager under       *)
(* startInactivityDetection and stopInactivityDetection while time passes  *)
(* and no outcome is recorded.  Time does pass, and the runtime runs the   *)
(* callback of a timeout that stays due: both steps are weakly fair.       *)
(***************************************************************************)
NextInactivity ==
  \/ Tick
  \/ CallStartInactivityDetection
  \/ CallStopInactivityDetection
  \/ TimeoutFires

SpecInactivity ==
  /\ InitDifficulty
  /\ [][NextInactivity]_vars
  /\ WF_vars(Tick)
  /\ WF_vars(TimeoutFires)

(***************************************************************************)
(* SpecSnapshot: a BoardManager initialised any number of times, its cards *)
(* removed, its state taken with getBoardState, altered by the holder and  *)
(* given back with restoreFromState.                                       *)
(***************************************************************************)
InitSnapshot ==
  /\ op = "new"
  /\ BoardIdle
  /\ PathIdle
  /\ SceneIdle
  /\ CodecIdle
  /\ ServicesIdle

\* the objects after a call
SetObjects(h, m, state) ==
  \E c \in {Renumber(h, m, state)} :
    /\ heap' = c.heap
    /\ bm' = c.m
    /\ snap' = c.state

\* initBoard(r, c, cards), also on a board initialised before
SnapInitBoard ==
  /\ \E r \in 1..MaxSnapCells, c \in 1..MaxSnapCells, n \in 0..(MaxSnapCells + 1) :
       /\ r * c <= MaxSnapCells
       /\ \E rnd \in RandomDraws(n) :
            LET res == initBoardOn(heap, bm, r, c, Deck(n), rnd)
            IN  /\ SetObjects(res.heap, res.m, snap)
                /\ bmThrew' = res.threw
  /\ op' = "initBoard"
  /\ UNCHANGED <<grid, rows, cols, remainingCards, threw, lastInit, argCount, pathVars,
                 sceneVars, codecVars, serviceVars>>

\* removeCard(row, col), for positions of the board and of the ring around it
SnapRemoveCard ==
  /\ \E row \in -1..bm.rows, col \in -1..bm.cols :
       LET res == removeCardOn(heap, bm, row, col)
       IN  /\ SetObjects(res.heap, res.m, snap)
           /\ bmThrew' = res.threw
  /\ op' = "removeCard"
  /\ UNCHANGED <<grid, rows, cols, remainingCards, threw, lastInit, argCount, pathVars,
                 sceneVars, codecVars, serviceVars>>

\* removeCardPair(pos1, pos2), pos1 = pos2 included
SnapRemoveCardPair ==
  /\ \E r1 \in 0..bm.rows, c1 \in 0..bm.cols, r2 \in 0..bm.rows, c2 \in 0..bm.cols :
       LET res == removeCardPairOn(heap, bm, Position(r1, c1), Position(r2, c2))
       IN  /\ SetObjects(res.heap, res.m, snap)
           /\ bmThrew' = res.threw
  /\ op' = "removeCardPair"
  /\ UNCHANGED <<grid, rows, cols, remainingCards, threw, lastInit, argCount, pathVars,
                 sceneVars, codecVars, serviceVars>>

\* state = getBoardState()
SnapGetBoardState ==
  /\ LET res == getBoardStateOn(heap, bm)
     IN  SetObjects(res.heap, bm, res.state)
  /\ bmThrew' = FALSE
  /\ op' = "getBoardState"
  /\ UNCHANGED <<grid, rows, cols, remainingCards, threw, lastInit, argCount, pathVars,
                 sceneVars, codecVars, serviceVars>>

\* the holder clears a cell of the state it holds
SnapClearStateCell ==
  /\ \E row \in DOMAIN snap.grid :
       \E col \in DOMAIN heap[snap.grid[row]] :
         /\ heap[snap.grid[row]][col] # NoCard
         /\ SetObjects(clearStateCell(heap, snap, row, col), bm, snap)
  /\ bmThrew' = FALSE
  /\ op' = "clearStateCell"
  /\ UNCHANGED <<grid, rows, cols, remainingCards, threw, lastInit, argCount,
                 pathVars, sceneVars, codecVars, serviceVars>>

\* restoreFromState(state), with the state taken earlier
SnapRestoreFromState ==
  /\ snap # NoBoardState
  /\ LET res == restoreFromStateOn(heap, bm, snap)
     IN  SetObjects(res.heap, res.m, snap)
  /\ bmThrew' = FALSE
  /\ op' = "restoreFromState"
  /\ UNCHANGED <<grid, rows, cols, remainingCards, threw, lastInit, argCount, pathVars,
                 sceneVars, codecVars, serviceVars>>

\* restoreFromState(getBoardState())
SnapRestoreOwnState ==
  /\ LET taken == getBoardStateOn(heap, bm)
         res == restoreFromStateOn(taken.heap, bm, taken.state)
     IN  SetObjects(res.heap, res.m, snap)
  /\ bmThrew' = FALSE
  /\ op' = "restoreOwnState"
  /\ UNCHANGED <<grid, rows, cols, remainingCards, threw, lastInit, argCount, pathVars,
                 sceneVars, codecVars, serviceVars>>

NextSnapshot ==
  \/ SnapInitBoard
  \/ SnapRemoveCard
  \/ SnapRemoveCardPair
  \/ SnapGetBoardState
  \/ SnapClearStateCell
  \/ SnapRestoreFromState
  \/ SnapRestoreOwnState

SpecSnapshot == InitSnapshot /\ [][NextSnapshot]_vars

(***************************************************************************)
(* SpecStats: a GameStatsManager driven through recordMatch, reset,        *)
(* startTimer and pauseTimer while time passes in steps of StatsTickMs.    *)
(***************************************************************************)
InitStats ==
  /\ op = "new"
  /\ PathIdle
  /\ BoardIdle
  /\ SceneIdle
  /\ CodecIdle
  /\ ServicesIdle

\* time passes, up to the millisecond limit
TimePasses(limit) ==
  /\ now + StatsTickMs <= limit
  /\ now' = now + StatsTickMs
  /\ runMs' = IF stats.isPaused THEN runMs ELSE runMs + StatsTickMs
  /\ op' = "tick"
  /\ UNCHANGED <<stats, diffVars, pathVars, boardVars, sceneVars, codecVars, supplyVars>>

StatsTick == TimePasses(MaxStatsTime)

\* startTimer()
CallStartTimer ==
  /\ stats' = startTimer(stats, now)
  /\ op' = "startTimer"
  /\ UNCHANGED <<now, runMs, diffVars, pathVars, boardVars, sceneVars, codecVars, supplyVars>>

\* pauseTimer()
CallPauseTimer ==
  /\ stats' = pauseTimer(stats, now)
  /\ op' = "pauseTimer"
  /\ UNCHANGED <<now, runMs, diffVars, pathVars, boardVars, sceneVars, codecVars, supplyVars>>

\* recordMatch(word, meaning, isCorrect)
CallRecordMatch ==
  /\ Len(stats.matchHistory) < MaxHistory
  /\ \E isCorrect \in BOOLEAN : stats' = recordMatch(stats, "cat", "mao", isCorrect, now)
  /\ op' = "recordMatch"
  /\ UNCHANGED <<now, runMs, diffVars, pathVars, boardVars, sceneVars, codecVars, supplyVars>>

\* reset()
CallResetStats ==
  /\ stats' = resetStats(stats)
  /\ runMs' = 0
  /\ op' = "reset"
  /\ UNCHANGED <<now, diffVars, pathVars, boardVars, sceneVars, codecVars, supplyVars>>

NextStats == StatsTick \/ CallStartTimer \/ CallPauseTimer \/ CallRecordMatch \/ CallResetStats

SpecStats == InitStats /\ [][NextStats]_vars

(***************************************************************************)
(* SpecStatsRestore: a GameStatsManager driven through all its operations  *)
(* that write its state, with restoreFromState and setElapsedTime.         *)
(***************************************************************************)
\* the scores, times and histories a saved game may hand to restoreFromState
SavedScores == {[correct |-> c, wrong |-> w] : c \in 0..MaxSaved, w \in 0..MaxSaved}
SavedTimes == 0..MaxSaved
SavedHistories ==
  {NoHistory} \cup
  {GivenHistory(h) :
     h \in {<<>>, <<MatchRecord("cat", "mao", TRUE, 0)>>,
            <<MatchRecord("cat", "mao", TRUE, 0), MatchRecord("cat", "gou", FALSE, 0)>>}}

\* restoreFromState(score, elapsedTime, matchHistory?)
CallRestoreStats ==
  /\ \E score \in SavedScores, seconds \in SavedTimes, history \in SavedHistories :
       /\ stats' = restoreStatsFromState(stats, score, seconds, history)
       /\ runMs' = seconds * 1000
  /\ op' = "restoreFromState"
  /\ UNCHANGED <<now, diffVars, pathVars, boardVars, sceneVars, codecVars, supplyVars>>

\* setElapsedTime(seconds)
CallSetElapsedTime ==
  /\ \E seconds \in SavedTimes :
       /\ stats' = setElapsedTime(stats, seconds, now)
       /\ runMs' = seconds * 1000
  /\ op' = "setElapsedTime"
  /\ UNCHANGED <<now, diffVars, pathVars, boardVars, sceneVars, codecVars, supplyVars>>

RestoreTick == TimePasses(MaxRestoreTime)

NextStatsRestore ==
  \/ RestoreTick
  \/ CallStartTimer
  \/ CallPauseTimer
  \/ CallRecordMatch
  \/ CallResetStats
  \/ CallRestoreStats
  \/ CallSetElapsedTime

SpecStatsRestore == InitStats /\ [][NextStatsRestore]_vars

(***************************************************************************)
(* Spec: a game session of GameScene.  create() fetches the cards and      *)
(* initialises the board; the player clicks card sprites; the second click *)
(* of a selection evaluates the match, and the board is updated when the   *)
(* awaited animation has finished.  Every evaluation is recorded in the    *)
(* GameStatsManager and in the DifficultyManager, whose inactivity timer   *)
(* runs from create() to onGameComplete().  The board sizes of the         *)
(* difficulty levels are scaled down to boards of at most MaxPairs pairs;  *)
(* fields that only feed the display (comboCount, maxCombo, the scene's    *)
(* own copy of the match history) are left out.                            *)
(***************************************************************************)
\* getPairCount(boardSize)
getPairCount(r, c) == (r * c) \div 2

SessionDims ==
  {d \in (1..(2 * MaxPairs)) \X (1..(2 * MaxPairs)) :
     d[1] * d[2] <= 2 * MaxPairs /\ (d[1] * d[2]) % 2 = 0}

Init ==
  /\ op = "new"
  /\ BoardIdle
  /\ PathIdle
  /\ SceneIdle
  /\ CodecIdle
  /\ ServicesIdle

\* create(): the cards of generateWords form pairCount valid pairs
CreateScene ==
  /\ scene = "loading"
  /\ \E d \in SessionDims :
       LET pairCount == getPairCount(d[1], d[2])
           words == Deck(2 * pairCount)
       IN  \E rnd \in RandomDraws(Len(words)) :
             LET res == initBoard(Board, d[1], d[2], words, rnd)
             IN  /\ SetBoard(res.b)
                 /\ threw' = res.threw
                 /\ lastInit' = IF res.threw THEN "threw" ELSE "ok"
                 /\ argCount' = Len(words)
                 /\ scene' = IF res.threw THEN "error" ELSE "playing"
                 /\ remainingPairs' = IF res.threw THEN remainingPairs ELSE pairCount
                 /\ IF res.threw
                    THEN UNCHANGED <<dm, timeouts, dmDetecting>>
                    ELSE /\ SetWorld(startInactivityDetection(World, now))
                         /\ dmDetecting' = "started"
  /\ op' = "create"
  /\ UNCHANGED <<selectedCard, isProcessing, correctCount, wrongCount, completions, pathVars,
                 codecVars, snapVars, now, statsVars, supplyVars, dmReturned, dmOutcomes,
                 dmFirst, dmBatch, lastOutcomeAt>>

\* the positions that hold a card sprite
SpritePositions ==
  {q \in PositionsIn(Board) : grid[q.row][q.col] # NoCard}

\* mutant: every reachable pair counts as a match
matchOutcomePathOnly(card1, card2, pos1, pos2, board) ==
  matchResultFor(findPath(pos1, pos2, board), card1, WordCard(card1.pairId,
                 IF card1.type = "word" THEN "meaning" ELSE "word"))

\* this.matchManager.evaluateMatch(card1.cardData, card2.cardData, card1.position,
\* card2.position, boardState)
matchOutcome(card1, card2, pos1, pos2, board) ==
  evaluateMatch(card1, card2, pos1, pos2, board)

\* findValidPair(boardState): the cards are collected row by row, and the
\* first pair (i < j) of one pairId and two types that findPath joins is returned
NoPair == [null |-> TRUE, pos1 |-> NoPosition, pos2 |-> NoPosition]

findValidPair(boardState) ==
  LET cards == {q \in PositionsIn(boardState) : boardState.grid[q.row][q.col] # NoCard}
      index(q) == q.row * boardState.cols + q.col
      cardAt(q) == boardState.grid[q.row][q.col]
      valid == {pr \in cards \X cards :
                  /\ index(pr[1]) < index(pr[2])
                  /\ cardAt(pr[1]).pairId = cardAt(pr[2]).pairId
                  /\ cardAt(pr[1]).type # cardAt(pr[2]).type
                  /\ ~findPath(pr[1], pr[2], boardState).null}
  IN  IF valid = {} THEN NoPair
      ELSE LET first == CHOOSE pr \in valid :
                          \A other \in valid :
                            \/ index(pr[1]) < index(other[1])
                            \/ index(pr[1]) = index(other[1]) /\ index(pr[2]) <= index(other[2])
           IN  [null |-> FALSE, pos1 |-> first[1], pos2 |-> first[2]]

\* evaluateMatch(card1, card2) up to its first await
StartEvaluateMatch(pos1, pos2) ==
  \E result \in {matchOutcome(grid[pos1.row][pos1.col], grid[pos2.row][pos2.col],
                              pos1, pos2, getBoardState(Board))} :
    /\ result.success \/ wrongCount < MaxWrong
    /\ isProcessing' = TRUE
    /\ mCard1' = grid[pos1.row][pos1.col]
    /\ mCard2' = grid[pos2.row][pos2.col]
    /\ pfStart' = pos1
    /\ pfEnd' = pos2
    /\ mResult' = result
    /\ correctCount' = IF result.success THEN correctCount + 1 ELSE correctCount
    /\ remainingPairs' = IF result.success THEN remainingPairs - 1 ELSE remainingPairs
    /\ wrongCount' = IF result.success THEN wrongCount ELSE wrongCount + 1
    /\ stats' = recordMatch(stats, grid[pos1.row][pos1.col].pairId,
                            grid[pos1.row][pos1.col].pairId, result.success, now)
    /\ LET res == recordMatchResult(World, result.success, now)
       IN  /\ SetWorld(res.w)
           /\ dmReturned' = res.returned
           /\ dmOutcomes' = Append(dmOutcomes, result.success)
           /\ dmFirst' = IF dmFirst = "none" THEN res.returned ELSE dmFirst
    /\ lastOutcomeAt' = now
    /\ op' = "evaluateMatch"
    /\ UNCHANGED <<scene, selectedCard, completions, pfBoard, pfPath, pfSimplified, searchVars,
                   boardVars, codecVars, now, runMs, supplyVars, dmBatch, dmDetecting>>

\* mutant: clicks are handled while a match is being evaluated
clickIgnoredNever(processing) == FALSE

\* if (this.isProcessing) return
clickIgnored(processing) == processing

\* onCardClick(card), for the sprite of any card on the board
OnCardClick ==
  /\ \E pos \in SpritePositions :
       IF clickIgnored(isProcessing) THEN UNCHANGED vars
       ELSE IF selectedCard = pos
       THEN /\ selectedCard' = NoPosition
            /\ op' = "deselect"
            /\ UNCHANGED <<scene, isProcessing, correctCount, wrongCount, remainingPairs,
                           completions, pathVars, boardVars, codecVars, serviceVars>>
       ELSE IF selectedCard = NoPosition
       THEN /\ selectedCard' = pos
            /\ op' = "select"
            /\ UNCHANGED <<scene, isProcessing, correctCount, wrongCount, remainingPairs,
                           completions, pathVars, boardVars, codecVars, serviceVars>>
       ELSE StartEvaluateMatch(selectedCard, pos)

\* mutant: the game counts as complete after every removal
isGameCompleteAfterAnyRemoval(b) == TRUE

\* this.boardManager.isGameComplete() in evaluateMatch
sceneIsGameComplete(b) == isGameComplete(b)

\* evaluateMatch(card1, card2) after the awaited animation; onGameComplete()
\* stops the inactivity detection and shows the end screen
FinishEvaluateMatch ==
  /\ isProcessing
  /\ IF mResult.success /\ ~mResult.path.null
     THEN LET res == removeCardPair(Board, pfStart, pfEnd)
          IN  /\ SetBoard(res.b)
              /\ threw' = res.threw
              /\ IF sceneIsGameComplete(res.b)
                 THEN /\ scene' = "complete"
                      /\ completions' = completions + 1
                      /\ SetWorld(stopInactivityDetection(World))
                      /\ dmDetecting' = "stopped"
                 ELSE UNCHANGED <<scene, completions, dm, timeouts, dmDetecting>>
     ELSE UNCHANGED <<grid, rows, cols, remainingCards, threw, scene, completions, dm, timeouts,
                      dmDetecting>>
  /\ selectedCard' = NoPosition
  /\ isProcessing' = FALSE
  /\ op' = "matchDone"
  /\ UNCHANGED <<lastInit, argCount, correctCount, wrongCount, remainingPairs, pathVars,
                 codecVars, snapVars, now, statsVars, supplyVars, dmReturned, dmOutcomes,
                 dmFirst, dmBatch, lastOutcomeAt>>

\* time passes in the session, one inactivity window at a time (the scene
\* reads the clock from create() on)
SessionTimePasses ==
  /\ scene # "loading"
  /\ now + INACTIVITY_TIMEOUT <= MaxSessionTime
  /\ now' = now + INACTIVITY_TIMEOUT
  /\ op' = "tick"
  /\ UNCHANGED <<diffVars, statsVars, supplyVars, pathVars, boardVars, sceneVars, codecVars>>

Next ==
  \/ CreateScene
  \/ OnCardClick
  \/ FinishEvaluateMatch
  \/ SessionTimePasses
  \/ TimeoutFires

Spec == Init /\ [][Next]_vars

(***************************************************************************)
(* SpecSupply: requests to POST /api/words/generate, one at a time.  The   *)
(* handler runs up to its first await (validation, then callAI), and is    *)
(* resumed by each reply of the AI service.                                *)
(***************************************************************************)
ValidEntry ==
  JObj([word |-> JStr("cat"), meaning |-> JStr("mao"), hint |-> JStr("animal")])
EntryWithoutHint ==
  JObj([word |-> JStr("dog"), meaning |-> JStr("gou"), hint |-> JStr("")])

RECURSIVE SeqsUpTo(_, _)
SeqsUpTo(S, n) ==
  IF n = 0 THEN {<<>>}
  ELSE LET shorter == SeqsUpTo(S, n - 1)
       IN  shorter \cup {Append(q, x) : q \in shorter, x \in S}

\* what the AI service may answer to one call
AIReplies ==
  {[kind |-> "error", parsed |-> JUndef], [kind |-> "unparsable", parsed |-> JUndef],
   [kind |-> "json", parsed |-> JObj([words |-> JStr("none")])]}
  \cup {[kind |-> "json", parsed |-> JArr(a)] :
          a \in SeqsUpTo({ValidEntry, EntryWithoutHint, JNull}, MaxItems)}

\* what a data file may hold for a theme
BankArray(n) == [isArray |-> TRUE, length |-> n]
BankNotIterable == [isArray |-> FALSE, length |-> 0]

\* the word banks LocalWordBank may have loaded ({} when the file failed to load)
WordBanks ==
  { <<>>,
    [th \in {"learning"} |-> BankArray(0)],
    [th \in {"learning"} |-> BankNotIterable],
    [th \in {"learning", "virtue"} |-> IF th = "learning" THEN BankArray(1) ELSE BankArray(MaxBank)] }

\* request bodies
RequestBodies ==
  {JNull} \cup
  { JObj([language |-> l, level |-> v, theme |-> th, count |-> c]) :
      l \in {JStr("zh"), JStr("en"), JStr("fr")},
      v \in {JStr("easy"), JStr("expert")},
      th \in {JStr("Learning"), JStr("space"), JStr(" "), JUndef},
      c \in {JInt(n) : n \in 0..MaxCount} \cup {JNum("finite", 3), JNaN, JStr("2")} }

InitSupply ==
  /\ op = "new"
  /\ PathIdle
  /\ BoardIdle
  /\ SceneIdle
  /\ CodecIdle
  /\ now = 0
  /\ DifficultyIdle
  /\ StatsIdle
  /\ SupplyIdle
  /\ zhIdioms \in WordBanks
  /\ enWords \in WordBanks

\* POST /api/words/generate arrives: validation, then the first callAI
PostGenerate ==
  /\ phase # "awaitingAI"
  /\ \E body \in RequestBodies :
       LET validation == validateGenerateRequest(body)
       IN  /\ request' = body
           /\ IF ~validation.valid
              THEN /\ response' = ErrorResponse(400, "INVALID_PARAMS", validation.error)
                   /\ phase' = "responded"
              ELSE /\ response' = NoResponse
                   /\ phase' = "awaitingAI"
  /\ attempt' = 0
  /\ aiReply' = [kind |-> "none", parsed |-> JUndef]
  /\ aiCalls' = <<>>
  /\ op' = "post"
  /\ UNCHANGED <<zhIdioms, enWords, now, diffVars, statsVars, pathVars, boardVars, sceneVars,
                 codecVars>>

\* callAI settles: the rest of the pass of the loop of generateContent, and,
\* when the loop ends, the rest of the route handler
AIResponds ==
  /\ phase = "awaitingAI"
  /\ \E reply \in AIReplies :
       LET params == validateGenerateRequest(request).data
           wordBank == IF params.language = "zh" THEN zhIdioms ELSE enWords
       IN  /\ aiReply' = reply
           /\ aiCalls' = Append(aiCalls, attemptSucceeds(reply, params.count, now))
           /\ IF attemptSucceeds(reply, params.count, now)
              THEN /\ response' =
                        GenerateResponse(parseResponse(reply, params.count, now).cards, "ai")
                   /\ phase' = "responded"
                   /\ attempt' = attempt
              ELSE IF retryAllowed(attempt)
              THEN /\ response' = NoResponse
                   /\ phase' = "awaitingAI"
                   /\ attempt' = attempt + 1
              ELSE /\ response' = localFallback(wordBank, params.theme, params.count, now)
                   /\ phase' = "responded"
                   /\ attempt' = attempt + 1
  /\ op' = "aiReply"
  /\ UNCHANGED <<request, zhIdioms, enWords, now, diffVars, statsVars, pathVars, boardVars,
                 sceneVars, codecVars>>

NextSupply == PostGenerate \/ AIResponds

SpecSupply == InitSupply /\ [][NextSupply]_vars

(***************************************************************************)
(* Properties of PathFinder and MatchManager (SpecPath)                    *)
(***************************************************************************)
\* a cell a connecting line may cross: an empty cell of the board, or a cell of
\* the ring one cell wide around it
Free(r, c, board) ==
  /\ r >= -1 /\ r <= board.rows /\ c >= -1 /\ c <= board.cols
  /\ \/ r < 0 \/ r >= board.rows \/ c < 0 \/ c >= board.cols
     \/ board.grid[r][c] = NoCard

Between(x, a, b) == (a < x /\ x < b) \/ (b < x /\ x < a)

\* a horizontal segment from (r, c1) to (r, c2), c1 # c2, crossing free cells only
SegH(r, c1, c2, board) ==
  /\ c1 # c2
  /\ \A c \in -1..board.cols : Between(c, c1, c2) => Free(r, c, board)

\* a vertical segment from (r1, c) to (r2, c), r1 # r2, crossing free cells only
SegV(c, r1, r2, board) ==
  /\ r1 # r2
  /\ \A r \in -1..board.rows : Between(r, r1, r2) => Free(r, c, board)

\* a straight line joins s and e
Line0(s, e, board) ==
  \/ s.row = e.row /\ SegH(s.row, s.col, e.col, board)
  \/ s.col = e.col /\ SegV(s.col, s.row, e.row, board)

\* a line with one corner, which lies on a free cell
Line1(s, e, board) ==
  \/ /\ Free(s.row, e.col, board)
     /\ SegH(s.row, s.col, e.col, board) /\ SegV(e.col, s.row, e.row, board)
  \/ /\ Free(e.row, s.col, board)
     /\ SegV(s.col, s.row, e.row, board) /\ SegH(e.row, s.col, e.col, board)

\* a line with two corners, both on free cells
Line2(s, e, board) ==
  \/ \E c \in -1..board.cols :
       /\ Free(s.row, c, board) /\ Free(e.row, c, board)
       /\ SegH(s.row, s.col, c, board) /\ SegV(c, s.row, e.row, board)
       /\ SegH(e.row, c, e.col, board)
  \/ \E r \in -1..board.rows :
       /\ Free(r, s.col, board) /\ Free(r, e.col, board)
       /\ SegV(s.col, s.row, r, board) /\ SegH(r, s.col, e.col, board)
       /\ SegV(e.col, r, e.row, board)

\* an orthogonal polyline with at most 2 direction changes joins s and e
Connectable(s, e, board) ==
  s # e /\ (Line0(s, e, board) \/ Line1(s, e, board) \/ Line2(s, e, board))

\* a point of the path lies outside the board
LeavesBoard(path, board) ==
  \E k \in 1..Len(path.points) :
    LET q == path.points[k]
    IN  q.row < 0 \/ q.row >= board.rows \/ q.col < 0 \/ q.col >= board.cols

\* C1: findPath returns a path if and only if an orthogonal polyline with at
\* most 2 direction changes joins start and end through passable cells; it
\* returns null otherwise, and always when start equals end.
C1_FindPathCompleteExact ==
  op = "findPath" =>
    /\ (~pfPath.null) <=> Connectable(pfStart, pfEnd, pfBoard)
    /\ pfStart = pfEnd => pfPath.null

\* C1 witness: a path was found that runs around the edge of a full row
C1_Witness ==
  /\ op = "findPath"
  /\ ~pfPath.null
  /\ pfPath.turns = 2
  /\ LeavesBoard(pfPath, pfBoard)

\* C2: every returned path has turns in {0, 1, 2} and at least 2 points.
C2_TurnsAtMostTwo ==
  (op = "findPath" /\ ~pfPath.null) =>
    /\ pfPath.turns \in {0, 1, 2}
    /\ Len(pfPath.points) >= 2

\* C2 witness: a returned path that uses both turns inside the board
C2_Witness ==
  /\ op = "findPath"
  /\ ~pfPath.null
  /\ pfPath.turns = 2
  /\ ~LeavesBoard(pfPath, pfBoard)

\* C3: evaluateMatch yields exactly one of three outcomes: success with the
\* path iff findPath returns a path and the cards have equal pairId and
\* different type; content_mismatch with the path iff a path exists and the
\* pairId differs or the type is equal; invalid_path without a path iff no
\* path exists, whatever the content of the cards.
C3_MatchClassification ==
  op = "evaluateMatch" =>
    LET pathExists == ~pfPath.null
        samePair == mCard1.pairId = mCard2.pairId
        sameType == mCard1.type = mCard2.type
    IN  /\ mResult.failureReason \in {"none", "content_mismatch", "invalid_path"}
        /\ mResult.success <=> mResult.failureReason = "none"
        /\ mResult.success <=> (pathExists /\ samePair /\ ~sameType)
        /\ mResult.failureReason = "content_mismatch"
             <=> (pathExists /\ (~samePair \/ sameType))
        /\ mResult.failureReason = "invalid_path" <=> ~pathExists
        /\ mResult.failureReason = "invalid_path" => mResult.path = NoPath
        /\ mResult.failureReason # "invalid_path" => mResult.path = pfPath

\* C3 witness: same pairId and same type over an open path is a content mismatch
C3_Witness ==
  /\ op = "evaluateMatch"
  /\ mCard1.pairId = mCard2.pairId
  /\ mCard1.type = mCard2.type
  /\ mResult.failureReason = "content_mismatch"
  /\ ~mResult.path.null

(***************************************************************************)
(* Properties of a game session (Spec)                                     *)
(***************************************************************************)
\* the positions of board b that hold a card
LivePositions(b) ==
  {q \in {Position(r, c) : r \in DOMAIN b.grid, c \in 0..(b.cols - 1)} :
     /\ q.col \in DOMAIN b.grid[q.row]
     /\ b.grid[q.row][q.col] \notin {NoCard, Undefined}}

\* C4: in a session the board changes only when a successful match is
\* completed, and then exactly the two selected cells are cleared; after an
\* invalid_path or a content_mismatch the grid and the card count are as before.
C4_BoardChangedOnlyBySuccess ==
  [][scene = "playing" =>
       IF isProcessing /\ ~isProcessing' /\ mResult.success
       THEN /\ rows' = rows
            /\ cols' = cols
            /\ remainingCards' = remainingCards - 2
            /\ grid[pfStart.row][pfStart.col] # NoCard
            /\ grid[pfEnd.row][pfEnd.col] # NoCard
            /\ grid' = [r \in DOMAIN grid |-> [c \in DOMAIN grid[r] |->
                          IF Position(r, c) \in {pfStart, pfEnd}
                          THEN NoCard ELSE grid[r][c]]]
       ELSE UNCHANGED <<grid, rows, cols, remainingCards, snapVars>>]_vars

\* C4 witness: a successful match has cleared its two cells and left the others
C4_Witness ==
  /\ op = "matchDone"
  /\ mResult.success
  /\ grid[pfStart.row][pfStart.col] = NoCard
  /\ grid[pfEnd.row][pfEnd.col] = NoCard
  /\ remainingCards = rows * cols - 2
  /\ wrongCount > 0

\* C5: on the board of a session every pairId present has exactly two tiles,
\* one of type word and one of type meaning.
C5_PairInvariant ==
  scene \in {"playing", "complete"} =>
    \A q \in LivePositions(Board) :
      LET same == {x \in LivePositions(Board) :
                     grid[x.row][x.col].pairId = grid[q.row][q.col].pairId}
      IN  /\ Cardinality(same) = 2
          /\ {grid[x.row][x.col].type : x \in same} = CardType

\* C5 witness: one pair has been removed by a match and another is still there
C5_Witness ==
  /\ scene = "playing"
  /\ correctCount = 1
  /\ ~isProcessing
  /\ Cardinality(LivePositions(Board)) = 2

(***************************************************************************)
(* Properties of BoardManager (SpecBoard)                                  *)
(***************************************************************************)
\* C6: initBoard throws if and only if cards.length differs from rows * cols;
\* when it does not throw, every cell holds a tile and the remaining-card
\* count is rows * cols.
C6_InitBoardSizeCheck ==
  op = "initBoard" =>
    /\ threw <=> argCount # rows * cols
    /\ ~threw =>
         /\ DOMAIN grid = 0..(rows - 1)
         /\ \A r \in DOMAIN grid :
              /\ DOMAIN grid[r] = 0..(cols - 1)
              /\ \A c \in DOMAIN grid[r] : grid[r][c] \notin {NoCard, Undefined}
         /\ getRemainingCardCount(Board) = rows * cols

\* C6 witness: initBoard has filled a board of four cells
C6_Witness ==
  /\ op = "initBoard"
  /\ ~threw
  /\ rows = 2
  /\ cols = 2
  /\ argCount = 4

\* C7 as claimed: initBoard fails whenever rows * cols is odd.
C7_OddBoardsFail ==
  (op = "initBoard" /\ (rows * cols) % 2 = 1) => threw

\* C8: after a successful initBoard, isGameComplete() is true exactly when no
\* tile remains, and it is false right after initialising a non-empty board.
C8_CompleteIffEmpty ==
  lastInit = "ok" =>
    /\ isGameComplete(Board) <=> LivePositions(Board) = {}
    /\ (op = "initBoard" /\ rows * cols > 0) => ~isGameComplete(Board)

\* C8 witness: the last of two pairs has been removed with removeCardPair
C8_Witness ==
  /\ lastInit = "ok"
  /\ op = "removeCardPair"
  /\ rows * cols = 4
  /\ isGameComplete(Board)
  /\ LivePositions(Board) = {}

(***************************************************************************)
(* Properties of serialization (SpecCodec)                                 *)
(***************************************************************************)
\* C9: for every valid GameState s, deserializeGameState(serializeGameState(s))
\* returns a state equal to s under areGameStatesEqual (boards with null cells,
\* cards with and without confuse, null or non-null selectedCard, completed
\* games included).
C9_RoundTrip ==
  op = "roundTrip" => gsOut.ok /\ areGameStatesEqual(gsIn, gsOut.v)

IsString(v) == v.t = "string"
IsNonNegativeInteger(v) == v.t = "number" /\ v.k = "finite" /\ v.h >= 0 /\ v.h % 2 = 0
IsNonNegativeNumber(v) == v.t = "number" /\ (v.k = "inf" \/ (v.k = "finite" /\ v.h >= 0))

IsCompleteCard(v) ==
  /\ v.t = "object"
  /\ {"id", "word", "meaning", "hint", "type", "pairId"} \subseteq DOMAIN v.f
  /\ DOMAIN v.f \subseteq {"id", "word", "meaning", "hint", "type", "pairId", "confuse"}
  /\ \A key \in DOMAIN v.f \ {"type"} : IsString(v.f[key])
  /\ v.f.type \in {JStr("word"), JStr("meaning")}

IsCompleteGameState(v) ==
  /\ v.t = "object"
  /\ DOMAIN v.f = {"config", "board", "score", "elapsedTime", "selectedCard", "isComplete"}
  /\ v.f.config.t = "object"
  /\ DOMAIN v.f.config.f = {"language", "level", "theme", "boardSize"}
  /\ v.f.config.f.language \in {JStr("zh"), JStr("en")}
  /\ v.f.config.f.level \in {JStr("easy"), JStr("medium"), JStr("hard")}
  /\ v.f.board.t = "object"
  /\ DOMAIN v.f.board.f = {"grid", "rows", "cols"}
  /\ v.f.board.f.grid.t = "array"
  /\ \A r \in DOMAIN v.f.board.f.grid.a :
       /\ v.f.board.f.grid.a[r].t = "array"
       /\ \A c \in DOMAIN v.f.board.f.grid.a[r].a :
            LET cell == v.f.board.f.grid.a[r].a[c]
            IN  cell = JNull \/ IsCompleteCard(cell)
  /\ v.f.score.t = "object"
  /\ DOMAIN v.f.score.f = {"correct", "wrong"}
  /\ IsNonNegativeInteger(v.f.score.f.correct)
  /\ IsNonNegativeInteger(v.f.score.f.wrong)
  /\ IsNonNegativeNumber(v.f.elapsedTime)
  /\ \/ v.f.selectedCard = JNull
     \/ /\ v.f.selectedCard.t = "object"
        /\ DOMAIN v.f.selectedCard.f = {"row", "col"}
        /\ IsNonNegativeInteger(v.f.selectedCard.f.row)
        /\ IsNonNegativeInteger(v.f.selectedCard.f.col)
  /\ v.f.isComplete.t = "boolean"

\* C10: deserializeGameState never returns a partial state.  For every input it
\* either throws GameStateValidationError (always so for a text that is not JSON
\* and for JSON that is not an object), or returns a complete GameState: language
\* zh or en, level easy, medium or hard, score counters non-negative integers,
\* elapsedTime a non-negative number, selectedCard null or non-negative integer
\* row and col, isComplete a boolean, every grid cell null or a card with string
\* id, word, meaning, hint, pairId, type word or meaning, confuse a string if
\* present.
C10_NoPartialState ==
  op \in {"deserialize", "roundTrip"} =>
    /\ gsOut.ok => IsCompleteGameState(gsOut.v)
    /\ ~gsOut.ok => gsOut.name = "GameStateValidationError" /\ gsOut.v = JUndef
    /\ (~jsonText.json \/ jsonText.tree.t # "object") => ~gsOut.ok

\* a received text with one bad field is rejected, and an unaltered one is restored
C10_Witness ==
  /\ op = "deserialize"
  /\ jsonText.json
  /\ jsonText.tree.t = "object"
  /\ Get(Get(jsonText.tree, "score"), "correct") = JNum("finite", 3)
  /\ ~gsOut.ok
  /\ gsOut.message = "score.correct must be a non-negative integer"

\* the board of a received JSON text, and its grid when that is an array
ReceivedBoard == Get(jsonText.tree, "board")
ReceivedGrid == Get(ReceivedBoard, "grid")

\* the grid has exactly n rows / the row has exactly n cells, for a JSON value n
HasLength(a, n) == n.t = "number" /\ n.k = "finite" /\ n.h = 2 * Len(a)

\* the received grid is an array that does not have board.rows rows
RowCountMismatch ==
  /\ ReceivedGrid.t = "array"
  /\ ~HasLength(ReceivedGrid.a, Get(ReceivedBoard, "rows"))

\* row i of the received grid is an array that does not have board.cols cells
ColumnCountMismatch(i) ==
  /\ ReceivedGrid.t = "array"
  /\ i \in DOMAIN ReceivedGrid.a
  /\ ReceivedGrid.a[i].t = "array"
  /\ ~HasLength(ReceivedGrid.a[i].a, Get(ReceivedBoard, "cols"))

IsPositiveNumber(v) == v.t = "number" /\ (v.k \in {"inf", "huge"} \/ (v.k = "finite" /\ v.h > 0))

\* nothing validated before the grid's dimensions is at fault
ValidUpToGrid ==
  /\ validateGameConfig(Get(jsonText.tree, "config")).ok
  /\ IsPositiveNumber(Get(ReceivedBoard, "rows"))
  /\ IsPositiveNumber(Get(ReceivedBoard, "cols"))

\* C11: deserializeGameState rejects every state whose board.grid does not have
\* exactly board.rows rows of exactly board.cols cells each; when the mismatch
\* is the first fault met, the error names the row count or the column count.
C11_GridDimensionsChecked ==
  (op = "deserialize" /\ jsonText.json /\ jsonText.tree.t = "object") =>
    /\ (RowCountMismatch \/ \E i \in 1..MaxGridCells : ColumnCountMismatch(i)) =>
         ~gsOut.ok /\ gsOut.name = "GameStateValidationError"
    /\ (ValidUpToGrid /\ RowCountMismatch) =>
         gsOut.message = "board.grid must have ${rows} rows"
    /\ (ValidUpToGrid /\ ~RowCountMismatch /\ ColumnCountMismatch(1)) =>
         gsOut.message = "board.grid[r] must have ${cols} columns"

\* C11 witness: rows = 2 with a grid of one row is rejected for its row count
C11_Witness ==
  /\ op = "deserialize"
  /\ jsonText.json
  /\ Get(ReceivedBoard, "rows") = JInt(2)
  /\ ReceivedGrid.t = "array"
  /\ Len(ReceivedGrid.a) = 1
  /\ ~gsOut.ok
  /\ gsOut.message = "board.grid must have ${rows} rows"

\* C12 as claimed: a state whose config.theme is the empty string is rejected.
C12_EmptyThemeRejected ==
  (op = "deserialize" /\ jsonText.json
     /\ Get(Get(jsonText.tree, "config"), "theme") = JStr("")) => ~gsOut.ok

\* C13 as claimed: a state is accepted only if config.boardSize.rows and
\* config.boardSize.cols are positive integers.
C13_BoardSizePositiveIntegers ==
  (op = "deserialize" /\ gsOut.ok) =>
    LET boardSize == Get(Get(jsonText.tree, "config"), "boardSize")
    IN  \A key \in {"rows", "cols"} :
          /\ IsNonNegativeInteger(Get(boardSize, key))
          /\ Get(boardSize, key).h > 0

(***************************************************************************)
(* Properties of DifficultyManager (SpecDifficulty)                        *)
(***************************************************************************)
\* the number of equal outcomes that end the sequence
RECURSIVE TrailingRun(_)
TrailingRun(seq) ==
  IF Len(seq) <= 1 THEN Len(seq)
  ELSE IF seq[Len(seq)] = seq[Len(seq) - 1]
  THEN 1 + TrailingRun(SubSeq(seq, 1, Len(seq) - 1))
  ELSE 1

\* C14: recordMatchResult returns 'increase' exactly on the 3rd, 6th, ...
\* consecutive correct outcome since a wrong outcome or reset, 'decrease'
\* exactly on the 3rd, 6th, ... consecutive wrong one, and 'none' otherwise;
\* on a trigger the triggering counter is 0 again.
C14_TriggerOnThird ==
  op = "recordMatchResult" =>
    LET run == TrailingRun(dmOutcomes)
        isCorrect == dmOutcomes[Len(dmOutcomes)]
    IN  /\ dmReturned = "increase" <=> (isCorrect /\ run % 3 = 0)
        /\ dmReturned = "decrease" <=> (~isCorrect /\ run % 3 = 0)
        /\ dmReturned \in {"increase", "decrease", "none"}
        /\ dmReturned = "increase" => dm.state.consecutiveCorrect = 0
        /\ dmReturned = "decrease" => dm.state.consecutiveWrong = 0

\* C14 witness: the 6th of six correct outcomes triggers again
C14_Witness ==
  /\ op = "recordMatchResult"
  /\ dmOutcomes = <<TRUE, TRUE, TRUE, TRUE, TRUE, TRUE>>
  /\ dmReturned = "increase"

\* C15: calculateAdjustmentFromSequence(seq) is the first value other than
\* 'none' that recordMatchResult returned when seq was fed to it one outcome at
\* a time, and 'none' when every call returned 'none'.
C15_BatchAgreesWithIncremental ==
  op = "calculate" => dmBatch = dmFirst

\* C15 witness: a sequence that triggers 'decrease' after a correct outcome
C15_Witness ==
  /\ op = "calculate"
  /\ dmOutcomes = <<TRUE, FALSE, FALSE, FALSE, TRUE>>
  /\ dmBatch = "decrease"
  /\ dmFirst = "decrease"

\* C16 as claimed: after stopInactivityDetection() or reset() the inactivity
\* hint is not given until startInactivityDetection() is called again.
C16_NoHintAfterStop ==
  op = "hint" => dmDetecting # "stopped"

\* C17: after a recordMatchResult call the inactivity hint is not given, and
\* no timeout is due, before INACTIVITY_TIMEOUT (30 s) has passed since the
\* latest outcome.
C17_OutcomeRestartsWindow ==
  lastOutcomeAt >= 0 =>
    /\ op = "hint" => now - lastOutcomeAt >= 30000
    /\ \A x \in timeouts : x.due - lastOutcomeAt >= 30000

\* C17 witness: the hint is given exactly 30 s after the latest outcome, which
\* was recorded while an earlier timeout was pending
C17_Witness ==
  /\ op = "hint"
  /\ lastOutcomeAt > 0
  /\ now - lastOutcomeAt = 30000

(***************************************************************************)
(* Properties of GameStatsManager (SpecStats)                              *)
(***************************************************************************)
\* C18: after any sequence of recordMatch and reset calls the correct and
\* wrong counters are the numbers of correct and incorrect records of
\* matchHistory (validateStats() is true) and their sum is its length.
C18_StatsMatchHistory ==
  /\ validateStats(stats)
  /\ stats.score.correct =
       Cardinality({i \in DOMAIN stats.matchHistory : stats.matchHistory[i].isCorrect})
  /\ stats.score.wrong =
       Cardinality({i \in DOMAIN stats.matchHistory : ~stats.matchHistory[i].isCorrect})
  /\ stats.score.correct + stats.score.wrong = Len(stats.matchHistory)

\* C18 witness: two correct matches and a wrong attempt recorded at a later time
C18_Witness ==
  /\ op = "recordMatch"
  /\ stats.score = [correct |-> 2, wrong |-> 1]
  /\ Len(stats.matchHistory) = 3
  /\ stats.matchHistory[3].timestamp > 0

\* C19: while the timer stays paused getElapsedTime() keeps its value however
\* much time passes; startTimer() while running and pauseTimer() while paused
\* change nothing; and no step other than reset() lowers getElapsedTime().
C19_ClockFrozenWhilePaused ==
  [][ /\ (stats.isPaused /\ stats'.isPaused /\ op' # "reset") =>
           getElapsedTime(stats', now') = getElapsedTime(stats, now)
      /\ (op' = "startTimer" /\ ~stats.isPaused) => stats' = stats
      /\ (op' = "pauseTimer" /\ stats.isPaused) => stats' = stats
      /\ op' # "reset" => getElapsedTime(stats', now') >= getElapsedTime(stats, now)
    ]_vars

\* C19 witness: paused at 1 s, and a further second has passed since
C19_Witness ==
  /\ op = "tick"
  /\ stats.isPaused
  /\ getElapsedTime(stats, now) = 1
  /\ now - stats.startTime >= 2000

(***************************************************************************)
(* Properties of the content supply (SpecSupply)                           *)
(***************************************************************************)
RequestedCount == validateGenerateRequest(request).data.count

\* cards form exactly n valid pairs: 2n cards, n pairIds, and each pairId on
\* exactly one word card and exactly one meaning card
FormsPairs(cards, n) ==
  LET ids == {cards[i].pairId : i \in DOMAIN cards}
      CardsWith(id, type) == {i \in DOMAIN cards : cards[i].pairId = id /\ cards[i].type = type}
  IN  /\ Len(cards) = 2 * n
      /\ Cardinality(ids) = n
      /\ \A id \in ids : Cardinality(CardsWith(id, "word")) = 1 /\ Cardinality(CardsWith(id, "meaning")) = 1

\* C20: every successful response to a valid request with count = n carries
\* exactly 2n cards forming exactly n valid pairs, from the AI service or from
\* the local word bank.
C20_SuccessCarriesPairs ==
  (phase = "responded" /\ response.success) => FormsPairs(response.data, RequestedCount)

(***************************************************************************)
(* Properties of the paths findPath returns (SpecPath)                     *)
(***************************************************************************)
Abs(x) == IF x < 0 THEN -x ELSE x

InsideBoard(q, board) ==
  q.row >= 0 /\ q.row < board.rows /\ q.col >= 0 /\ q.col < board.cols

PathReturned == op \in {"findPath", "simplifyPath"} /\ ~pfPath.null

\* C21: every returned path is a well-formed walk: it starts at start, ends at
\* end, consecutive points are one step apart in one axis, every interior
\* point is an empty cell of the board or a cell of the one-cell ring around
\* it, and no point is more than one cell outside the board.
C21_PathIsWalk ==
  PathReturned =>
    LET pts == pfPath.points
    IN  /\ pts[1] = pfStart
        /\ pts[Len(pts)] = pfEnd
        /\ \A k \in 1..(Len(pts) - 1) :
             Abs(pts[k + 1].row - pts[k].row) + Abs(pts[k + 1].col - pts[k].col) = 1
        /\ \A k \in 2..(Len(pts) - 1) : Free(pts[k].row, pts[k].col, pfBoard)
        /\ \A k \in 1..Len(pts) :
             /\ pts[k].row >= -1 /\ pts[k].row <= pfBoard.rows
             /\ pts[k].col >= -1 /\ pts[k].col <= pfBoard.cols

\* C21 witness: a returned path that crosses both an empty cell of the board
\* and a cell of the ring
C21_Witness ==
  /\ op = "findPath"
  /\ ~pfPath.null
  /\ \E k \in 2..(Len(pfPath.points) - 1) : InsideBoard(pfPath.points[k], pfBoard)
  /\ \E k \in 2..(Len(pfPath.points) - 1) : ~InsideBoard(pfPath.points[k], pfBoard)

\* C22: the turns field of every returned path equals calculateTurns(points).
C22_TurnsMatchRecount ==
  PathReturned => pfPath.turns = calculateTurns(pfPath.points)

\* C22 witness: a returned path with two turns and a straight stretch
C22_Witness ==
  /\ op = "findPath"
  /\ ~pfPath.null
  /\ pfPath.turns = 2
  /\ Len(pfPath.points) >= 5

\* the fewest turns of a legal line between s and e (3: there is none)
MinTurns(s, e, board) ==
  IF Line0(s, e, board) THEN 0
  ELSE IF Line1(s, e, board) THEN 1
  ELSE IF Line2(s, e, board) THEN 2
  ELSE 3

\* C23: the returned path has the minimum number of turns: no legal path
\* between the same positions on the same board has fewer turns.
C23_MinimumTurns ==
  PathReturned => pfPath.turns <= MinTurns(pfStart, pfEnd, pfBoard)

\* indices (1-based) of the points of pts that simplifyPath is to keep
KeptIndices(pts) ==
  {1, Len(pts)} \cup
  {i \in 2..(Len(pts) - 1) :
     (pts[i - 1].row = pts[i].row) # (pts[i].row = pts[i + 1].row)}

\* the points of pts at the indices of idx, in order
PointsAt(pts, idx) ==
  [k \in 1..Cardinality(idx) |->
     pts[CHOOSE i \in idx : Cardinality({j \in idx : j < i}) = k - 1]]

\* C24: simplifyPath(p) holds exactly the start, the points where the
\* direction changes, in order, and the end; it has p.turns + 2 points and the
\* turns of p; simplifying it again changes nothing.
C24_SimplifyKeepsTurningPoints ==
  op = "simplifyPath" =>
    /\ pfSimplified.points = PointsAt(pfPath.points, KeptIndices(pfPath.points))
    /\ Len(pfSimplified.points) = pfPath.turns + 2
    /\ pfSimplified.turns = pfPath.turns
    /\ simplifyPath(pfSimplified) = pfSimplified

\* C24 witness: a path with two turns simplified from at least 6 points to 4
C24_Witness ==
  /\ op = "simplifyPath"
  /\ pfPath.turns = 2
  /\ Len(pfPath.points) >= 6
  /\ Len(pfSimplified.points) = 4

(***************************************************************************)
(* Properties of the search of findPath (SpecSearch)                       *)
(***************************************************************************)
\* no search state (row, col, direction, turns) was enqueued twice
EnqueuedOnce ==
  \A i \in 1..Len(bfsEnqueued), j \in 1..Len(bfsEnqueued) :
    bfsEnqueued[i] = bfsEnqueued[j] => i = j

\* the value the steps returned is the value of findPath
ReturnsFindPath ==
  bfsPhase = "returned" => pfPath = findPath(pfStart, pfEnd, pfBoard)

\* C25: findPath always terminates: each search state is enqueued at most
\* once, and every call returns, a path or null, after finitely many steps.
C25_FindPathTerminates ==
  /\ [](EnqueuedOnce /\ ReturnsFindPath)
  /\ <>(bfsPhase = "returned")

\* C25 witness: the queue ran empty after at least 20 search states and null
\* was returned
C25_Witness ==
  /\ op = "end"
  /\ bfsPhase = "returned"
  /\ pfPath.null
  /\ Len(bfsEnqueued) >= 20

(***************************************************************************)
(* Properties of BoardManager over its whole life (SpecSnapshot)           *)
(***************************************************************************)
ManagerGrid == Deref(heap, bm.grid)

\* C26: in every reachable state of BoardManager the grid has exactly rows
\* rows of exactly cols cells, also after an initBoard call that threw on a
\* board initialised before.
C26_GridMatchesDimensions ==
  /\ DOMAIN ManagerGrid = 0..(bm.rows - 1)
  /\ \A r \in DOMAIN ManagerGrid : DOMAIN ManagerGrid[r] = 0..(bm.cols - 1)

\* C27: getRemainingCardCount() is the number of non-empty cells of the grid
\* and is never negative.
C27_CounterCountsCards ==
  /\ bm.remainingCards = countCards(ManagerGrid)
  /\ bm.remainingCards >= 0

\* C28: a BoardState returned by getBoardState is not changed by later
\* removeCard / removeCardPair calls, clearing cells of a held state does not
\* change the board, and restoreFromState(getBoardState()) leaves the grid,
\* the dimensions and the remaining count unchanged.
C28_SnapshotIsolation ==
  [][ /\ op' \in {"removeCard", "removeCardPair"} =>
           Deref(heap', snap'.grid) = Deref(heap, snap.grid)
      /\ op' = "clearStateCell" =>
           /\ Deref(heap', bm'.grid) = Deref(heap, bm.grid)
           /\ bm'.remainingCards = bm.remainingCards
      /\ op' = "restoreOwnState" =>
           /\ Deref(heap', bm'.grid) = Deref(heap, bm.grid)
           /\ bm'.rows = bm.rows /\ bm'.cols = bm.cols
           /\ bm'.remainingCards = bm.remainingCards
    ]_vars

(***************************************************************************)
(* Properties of GameStatsManager with restoreFromState (SpecStatsRestore) *)
(* and of its timer (SpecStats)                                            *)
(***************************************************************************)
\* C29: in every state reachable through recordMatch, reset, restoreFromState
\* (with or without a history), setElapsedTime, startTimer and pauseTimer,
\* the counters equal the counts replayed from matchHistory: validateStats()
\* is true.
C29_ValidateStatsAlways == validateStats(stats)

\* C30: getElapsedTime() is the whole seconds of the total time spent running,
\* floor(total running milliseconds / 1000), across any sequence of
\* startTimer / pauseTimer calls at arbitrary millisecond times.
C30_ElapsedIsRunningTime == getElapsedTime(stats, now) = runMs \div 1000

(***************************************************************************)
(* Properties of the DifficultyManager's counters and of its inactivity    *)
(* timer                                                                   *)
(***************************************************************************)
\* C31: in every state reachable from a fresh DifficultyManager by
\* recordMatchResult and reset, at most one of consecutiveCorrect and
\* consecutiveWrong is non-zero, and each is 0, 1 or 2 once the call returned.
C31_StreaksExclusiveAndBounded ==
  /\ dm.state.consecutiveCorrect = 0 \/ dm.state.consecutiveWrong = 0
  /\ dm.state.consecutiveCorrect \in 0..(CONSECUTIVE_THRESHOLD - 1)
  /\ dm.state.consecutiveWrong \in 0..(CONSECUTIVE_THRESHOLD - 1)

\* a wrong outcome has just been recorded after two correct ones
C31_Witness ==
  /\ op = "recordMatchResult"
  /\ Len(dmOutcomes) >= 3
  /\ dmOutcomes[Len(dmOutcomes)] = FALSE
  /\ dmOutcomes[Len(dmOutcomes) - 1] = TRUE
  /\ dmOutcomes[Len(dmOutcomes) - 2] = TRUE
  /\ dm.state.consecutiveWrong = 1
  /\ dm.state.consecutiveCorrect = 0

\* the timeout the object holds is pending with this due time
PendingDue(due) == [id |-> dm.inactivityTimer, due |-> due] \in timeouts

\* the values of Date.now(), and the times a timeout set at one of them is due
\* before the clock's end
ClockTimes == {k * TickMs : k \in 0..(MaxTime \div TickMs)}
DueTimes == {t + INACTIVITY_TIMEOUT : t \in {c \in ClockTimes : c + INACTIVITY_TIMEOUT <= MaxTime}}

\* C32: the inactivity timer re-arms itself after firing.  A timeout pending
\* for the manager is followed by a hint that leaves a timeout pending for a
\* further INACTIVITY_TIMEOUT window, unless detection is started anew or
\* stopped in between (no outcome is recorded); so under continued
\* inactivity the hint comes again window after window.
C32_HintRepeats ==
  \A due \in DueTimes, last \in ClockTimes :
    (PendingDue(due) /\ dm.state.lastActionTime = last)
      ~> \/ /\ op = "hint"
            /\ \E x \in timeouts :
                 x.id = dm.inactivityTimer /\ x.due >= due + INACTIVITY_TIMEOUT
         \/ dm.state.lastActionTime # last
         \/ dm.inactivityTimer = NoTimer

\* the hint was given a second time with no action since detection started at 0
C32_Witness ==
  /\ op = "hint"
  /\ dm.state.lastActionTime = 0
  /\ dmOutcomes = <<>>
  /\ \E x \in timeouts : x.id = dm.inactivityTimer /\ x.due >= 3 * INACTIVITY_TIMEOUT

\* C33: no timer leak.  Under every interleaving of startInactivityDetection,
\* recordMatchResult, stopInactivityDetection, reset and timer expiry the
\* manager has at most one inactivity timeout pending, and none once
\* stopInactivityDetection() has returned.
C33_NoTimerLeak ==
  /\ Cardinality(timeouts) <= 1
  /\ op = "stopInactivityDetection" => timeouts = {}

\* detection is stopped after an outcome was recorded, which had set a timeout
C33_Witness ==
  /\ op = "stopInactivityDetection"
  /\ dmOutcomes # <<>>
  /\ lastOutcomeAt = now
  /\ timeouts = {}

(***************************************************************************)
(* Properties of the retry of AIService.generateContent                    *)
(***************************************************************************)
\* the calls of callAI made for the request, the one in flight included
CallsMade == Len(aiCalls) + (IF phase = "awaitingAI" THEN 1 ELSE 0)

\* the latest reply gave at least one card
LatestYieldsCards ==
  /\ aiReply.kind # "error"
  /\ ~parseResponse(aiReply, RequestedCount, now).threw
  /\ parseResponse(aiReply, RequestedCount, now).cards # <<>>

\* C34: generateContent retries exactly once.  Per request the AI is called at
\* most twice; the route answers from the AI as soon as one call yields a
\* card; it turns to the local word bank (or to the 500 error) only after both
\* calls have failed, never after an AI success.
C34_RetryOnceThenLocal ==
  /\ CallsMade <= 2
  /\ phase = "awaitingAI" => \A i \in DOMAIN aiCalls : ~aiCalls[i]
  /\ (op = "aiReply" /\ phase = "responded") =>
       /\ aiCalls[Len(aiCalls)] = LatestYieldsCards
       /\ \A i \in 1..(Len(aiCalls) - 1) : ~aiCalls[i]
       /\ LatestYieldsCards => response.success /\ response.source = "ai"
       /\ ~LatestYieldsCards =>
            /\ Len(aiCalls) = 2
            /\ response.source # "ai"
  /\ (op = "aiReply" /\ phase = "awaitingAI") => ~LatestYieldsCards

\* the first call failed, the second gave cards and the route answered from the AI
C34_Witness ==
  /\ op = "aiReply"
  /\ phase = "responded"
  /\ aiCalls = <<FALSE, TRUE>>
  /\ response.source = "ai"

(***************************************************************************)
(* Properties of PathFinder and MatchManager: edges and symmetry           *)
(* (SpecPath)                                                              *)
(***************************************************************************)
\* both positions lie in row 0, in the last row, in column 0 or in the last column
SameOuterEdge(a, b, board) ==
  \/ a.row = 0 /\ b.row = 0
  \/ a.row = board.rows - 1 /\ b.row = board.rows - 1
  \/ a.col = 0 /\ b.col = 0
  \/ a.col = board.cols - 1 /\ b.col = board.cols - 1

\* C38: edge routing.  Two distinct positions on the same outer edge of the
\* board are always connectable: findPath returns a path for them whatever
\* the other cells hold.
C38_SameEdgeConnectable ==
  (op = "findPath" /\ pfStart # pfEnd /\ SameOuterEdge(pfStart, pfEnd, pfBoard))
    => ~pfPath.null

\* two cards of the top row with a card between them are joined outside the board
C38_Witness ==
  /\ op = "findPath"
  /\ pfStart.row = 0
  /\ pfEnd.row = 0
  /\ pfEnd.col = pfStart.col + 2
  /\ \A r \in 0..(pfBoard.rows - 1) : pfBoard.grid[r][pfStart.col + 1] # NoCard
  /\ ~pfPath.null
  /\ \E i \in DOMAIN pfPath.points : ~InsideBoard(pfPath.points[i], pfBoard)

\* success, content_mismatch or invalid_path
OutcomeClass(result) == IF result.success THEN "success" ELSE result.failureReason

\* C39: connectability is symmetric.  findPath(a, b) returns a path iff
\* findPath(b, a) does, and evaluateMatch(c1, c2, p1, p2, board) and
\* evaluateMatch(c2, c1, p2, p1, board) have the same outcome class.
C39_Symmetric ==
  /\ op = "findPath" => (pfPath.null <=> findPath(pfEnd, pfStart, pfBoard).null)
  /\ op = "evaluateMatch" =>
       OutcomeClass(mResult)
         = OutcomeClass(evaluateMatch(mCard2, mCard1, pfEnd, pfStart, pfBoard))

\* a meaning card and its word card were matched, the meaning card first
C39_Witness ==
  /\ op = "evaluateMatch"
  /\ mCard1.type = "meaning"
  /\ mCard2.type = "word"
  /\ mResult.success
  /\ pfStart # pfEnd
  /\ pfPath.turns = 2

(***************************************************************************)
(* Property of deserializeGameState: the selected position (SpecCodec)     *)
(***************************************************************************)
\* a < b on two finite numbers
NumberBelow(a, b) == a.k = "finite" /\ b.k = "finite" /\ a.h < b.h

\* C40: every state deserializeGameState accepts has a selectedCard that is
\* null or a position inside the restored board: 0 <= row < board.rows and
\* 0 <= col < board.cols.
C40_SelectedCardInsideBoard ==
  (op \in {"deserialize", "roundTrip"} /\ gsOut.ok /\ Get(gsOut.v, "selectedCard") # JNull)
    => LET selected == Get(gsOut.v, "selectedCard")
           board == Get(gsOut.v, "board")
       IN  /\ ~LessThanZero(Get(selected, "row"))
           /\ ~LessThanZero(Get(selected, "col"))
           /\ NumberBelow(Get(selected, "row"), Get(board, "rows"))
           /\ NumberBelow(Get(selected, "col"), Get(board, "cols"))

(***************************************************************************)
(* Properties of a game session: dead ends, completion, one evaluation at  *)
(* a time (Spec)                                                           *)
(***************************************************************************)
\* C36: a session can always be played to completion.  In every board state
\* reached from a shuffle of valid pairs by successful matches, if tiles
\* remain then findValidPair returns a pair.
C36_NoDeadEnd ==
  (scene = "playing" /\ LivePositions(Board) # {})
    => ~findValidPair(getBoardState(Board)).null

\* C35: onGameComplete runs exactly once per session, directly after the
\* removal that empties the board and never while a tile remains; once it has
\* run, inactivity detection is stopped and no further match is evaluated.
C35_CompletesExactlyOnce ==
  [][/\ completions' <= 1
     /\ completions' # completions =>
          /\ completions' = completions + 1
          /\ op' = "matchDone"
          /\ LivePositions(Board) # {}
          /\ LivePositions(Board)' = {}
     /\ (LivePositions(Board) # {} /\ LivePositions(Board)' = {}) =>
          completions' = completions + 1
     /\ completions' >= 1 =>
          /\ timeouts' = {}
          /\ dm'.inactivityTimer = NoTimer
          /\ dmDetecting' = "stopped"
     /\ completions >= 1 =>
          UNCHANGED <<stats, dm, correctCount, wrongCount, mResult, isProcessing>>]_vars

\* the session was completed after a failed attempt, and time went on afterwards
C35_Witness ==
  /\ completions = 1
  /\ scene = "complete"
  /\ LivePositions(Board) = {}
  /\ correctCount = 2
  /\ wrongCount > 0
  /\ op = "tick"
  /\ timeouts = {}

\* the streak counters after one more outcome
StreakAfter(state, isCorrect) ==
  IF isCorrect
  THEN [consecutiveCorrect |-> (state.consecutiveCorrect + 1) % CONSECUTIVE_THRESHOLD,
        consecutiveWrong |-> 0]
  ELSE [consecutiveCorrect |-> 0,
        consecutiveWrong |-> (state.consecutiveWrong + 1) % CONSECUTIVE_THRESHOLD]

Streaks(state) ==
  [consecutiveCorrect |-> state.consecutiveCorrect, consecutiveWrong |-> state.consecutiveWrong]

\* C37: at most one match evaluation is in flight.  From the second click of a
\* selection until its animation has finished (isProcessing), card clicks
\* change neither the selection, the board, the score counters nor the streak
\* counters; each evaluated selection is recorded exactly once in the
\* statistics and in the difficulty manager.
C37_OneEvaluationInFlight ==
  [][/\ isProcessing =>
          /\ UNCHANGED <<correctCount, wrongCount, stats>>
          /\ Streaks(dm'.state) = Streaks(dm.state)
     /\ (isProcessing /\ isProcessing') =>
          UNCHANGED <<selectedCard, grid, rows, cols, remainingCards>>
     /\ (~isProcessing /\ isProcessing') =>
          /\ Len(stats'.matchHistory) = Len(stats.matchHistory) + 1
          /\ stats'.matchHistory[Len(stats'.matchHistory)].isCorrect = mResult'.success
          /\ stats'.score.correct + stats'.score.wrong
               = stats.score.correct + stats.score.wrong + 1
          /\ correctCount' + wrongCount' = correctCount + wrongCount + 1
          /\ Streaks(dm'.state) = StreakAfter(dm.state, mResult'.success)
     /\ ~isProcessing' =>
          /\ UNCHANGED <<correctCount, wrongCount, stats>>
          /\ Streaks(dm'.state) = Streaks(dm.state)
     /\ stats'.score = [correct |-> correctCount', wrong |-> wrongCount']
     /\ Len(stats'.matchHistory) = correctCount' + wrongCount']_vars

\* a second evaluation is in flight while the inactivity timer has fired
C37_Witness ==
  /\ isProcessing
  /\ op = "hint"
  /\ Len(stats.matchHistory) = 2
  /\ correctCount + wrongCount = 2

=============================================================================
